---- MODULE Spec2Model ----
(***************************************************************************)
(* Selection engine of ComfyUIAutomation (src/main.py): the three          *)
(* selection calls set_checkpoint / set_char / set_lora, the cycle pool    *)
(* (_pop_from_cycle), the usage store written by db_save and read by the   *)
(* db strategies, the type draw of run() and the watcher's reload          *)
(* callback.  A Python dict is a function; a missing key is a key outside  *)
(* DOMAIN; None is the string "None" (type) or NoneSel (selection).        *)
(* A random draw is a nondeterministic choice over its possible outcomes.  *)
(***************************************************************************)
EXTENDS Integers, Sequences, FiniteSets, TLC

VARIABLES
    main_config,          \* self.main_config (re-read from config.yml)
    checkpoint_files,     \* self.checkpoint_files: type_key -> id -> path
    lora_files,           \* self.lora_files: type_key -> folder -> id -> path
    data,                 \* self.data: type_key -> metadata of the type
    selected_type,        \* self.selected_type
    selected_Checkpoint,  \* self.selected_Checkpoint: id -> path
    selected_char,        \* self.selected_char: id -> path, or None
    selected_loras,       \* self.selected_loras: id -> path
    cycle_pool,           \* self.cycle_pool: category -> type_key -> remaining ids
    db,                   \* count.db: table -> key -> count
    cycle_log,            \* history: ids popped from each pool, in order
    log_on,               \* history: whether cycle_log is kept
    cycle_since,          \* history: ids popped from each pool since its last refill
    committed,            \* history: increments db_save has committed, per category
    last_call,            \* history: the last call, what it read and what it decided
    pop_pc, pop_cur, pop_result, pop_k, pop_candidates,  \* one _pop_from_cycle call, step by step
    run,                  \* the driver thread: its place in run() and its loop variables
    watch                 \* the watcher thread: its place in the reload callback

vars == <<main_config, checkpoint_files, lora_files, data, selected_type,
          selected_Checkpoint, selected_char, selected_loras, cycle_pool, db,
          cycle_log, log_on, cycle_since, committed, last_call,
          pop_pc, pop_cur, pop_result, pop_k, pop_candidates, run, watch>>

engine_vars == <<main_config, checkpoint_files, lora_files, data, selected_type,
                 selected_Checkpoint, selected_char, selected_loras, cycle_pool, db,
                 cycle_log, log_on, cycle_since, committed, last_call>>

pop_vars == <<pop_pc, pop_cur, pop_result, pop_k, pop_candidates>>

\* what neither the watcher nor the driver's own steps write
sel_vars == <<main_config, checkpoint_files, lora_files, selected_type,
              selected_Checkpoint, selected_char, selected_loras, cycle_pool, db,
              cycle_log, log_on, cycle_since, committed>>

(***************************************************************************)
(* Bounds of the model.                                                    *)
(***************************************************************************)
\* pops recorded per cycle pool before the cycle strategy is no longer taken
MaxLog == 6
\* a usage count db_save no longer raises
MaxCount == 2
\* largest k of a step-by-step _pop_from_cycle call
MaxK == 4
\* longest list given to random_int_or_value on its own
MaxSeq == 3
\* largest element of such a list, in halves
MaxHalf == 2

Ids == {"a", "b", "c"}
IdOrder == <<"a", "b", "c">>
BucketOrder == <<"y1", "y2">>
Categories == {"checkpoint", "char", "lora"}
Tables == {"_default", "checkpoint", "char", "lora"}

(***************************************************************************)
(* Python helpers.                                                         *)
(***************************************************************************)
Get(f, k, d) == IF k \in DOMAIN f THEN f[k] ELSE d

Put(f, k, v) == [x \in DOMAIN f \cup {k} |-> IF x = k THEN v ELSE f[x]]

Range(s) == {s[i] : i \in DOMAIN s}

Min(x, y) == IF x < y THEN x ELSE y

Max(x, y) == IF x > y THEN x ELSE y

EmptyDict == <<>>

\* str.lower() on the type names of the configuration
Lower(s) == CASE s = "IL" -> "il" [] s = "XL" -> "xl" [] OTHER -> s

\* list(d.keys()) in the dict's iteration order
KeysInOrder(d, order) == SelectSeq(order, LAMBDA x : x \in DOMAIN d)

RECURSIVE SumOver(_, _)
SumOver(w, S) ==
    IF S = {} THEN 0
    ELSE LET x == CHOOSE y \in S : TRUE IN w[x] + SumOver(w, S \ {x})

\* random.choices(names, weights, k=1)[0]: the names it can return; no name
\* (ValueError) when the weights do not sum to more than zero
WeightedChoice(w) ==
    IF SumOver(w, DOMAIN w) <= 0 THEN {} ELSE {n \in DOMAIN w : w[n] > 0}

\* random.shuffle(list): every arrangement of the list
Perms(s) ==
    LET n == Len(s)
        Bij == {g \in [1..n -> 1..n] : \A i, j \in 1..n : i # j => g[i] # g[j]}
    IN {[i \in 1..n |-> s[g[i]]] : g \in Bij}

\* mutant of Dedup: the candidate list is used as collected
DedupNone(s) == s

\* list(dict.fromkeys(list)): first occurrences, in order
RECURSIVE Dedup(_)
Dedup(s) ==
    IF s = <<>> THEN <<>>
    ELSE LET front == Dedup(SubSeq(s, 1, Len(s) - 1))
             x == s[Len(s)]
         IN IF x \in Range(front) THEN front ELSE Append(front, x)

\* a catalog path, and the None that dict.get returns for a missing file
Path(root, type_key, sub, id) == <<root, type_key, sub, id>>
NonePath == <<>>

\* self.selected_char = None
NoneSel == [x \in {"None"} |-> NonePath]

\* the identifiers of a Selection Result
Keys(sel) == IF sel = NoneSel THEN {} ELSE DOMAIN sel

(***************************************************************************)
(* random_int_or_value: an int passes through, a list resolves to an       *)
(* integer between the floor of its min and the ceiling of its max.        *)
(***************************************************************************)
IntVal(v) == [kind |-> "int", v |-> <<v>>]
SeqVal(s) == [kind |-> "seq", v |-> s]
\* a list with non-integral elements: s[i] stands for the number s[i] / 2
HalfVal(s) == [kind |-> "half", v |-> s]

SeqMin(s) == CHOOSE x \in Range(s) : \A y \in Range(s) : x <= y
SeqMax(s) == CHOOSE x \in Range(s) : \A y \in Range(s) : x >= y

\* mutant of random_int_or_value: the max is truncated, not rounded up
random_int_or_value_int(value) ==
    IF value.kind = "int" THEN {value.v[1]}
    ELSE IF value.v = <<>> THEN {}
    ELSE IF value.kind = "half"
    THEN (SeqMin(value.v) \div 2) .. (SeqMax(value.v) \div 2)
    ELSE SeqMin(value.v) .. SeqMax(value.v)

\* the set of integers it can return; empty when it raises (empty list):
\* random.randint(math.floor(min_v), math.ceil(max_v))
random_int_or_value(value) ==
    IF value.kind = "int" THEN {value.v[1]}
    ELSE IF value.v = <<>> THEN {}
    ELSE IF value.kind = "half"
    THEN (SeqMin(value.v) \div 2) .. (-((-SeqMax(value.v)) \div 2))
    ELSE SeqMin(value.v) .. SeqMax(value.v)

(***************************************************************************)
(* _pop_from_cycle.                                                        *)
(***************************************************************************)
\* mutant of PopTake: the whole pool is taken
PopTakeAll(k, result, cur) == Len(cur)

\* take = min(k - len(result), len(cur))
PopTake(k, result, cur) == Min(k - Len(result), Len(cur))

\* mutant of PopLoop: the slice that stays in the pool starts one too far
RECURSIVE PopLoopSkip(_, _, _, _, _)
PopLoopSkip(cur, since, result, candidates, k) ==
    IF Len(result) >= k
    THEN {[result |-> result, cur |-> cur, since |-> since]}
    ELSE LET refills == IF cur = <<>> THEN Perms(candidates) ELSE {cur}
             s0 == IF cur = <<>> THEN <<>> ELSE since
         IN UNION { LET take == Min(k - Len(result), Len(c))
                    IN PopLoopSkip(SubSeq(c, take + 2, Len(c)),
                                   s0 \o SubSeq(c, 1, take),
                                   result \o SubSeq(c, 1, take),
                                   candidates, k) : c \in refills }

\* the while loop: refill an empty pool with a shuffle of the candidates, take
\* from the front.  since: what was taken since the last refill (history).
RECURSIVE PopLoop(_, _, _, _, _)
PopLoop(cur, since, result, candidates, k) ==
    IF Len(result) >= k
    THEN {[result |-> result, cur |-> cur, since |-> since]}
    ELSE LET refills == IF cur = <<>> THEN Perms(candidates) ELSE {cur}
             s0 == IF cur = <<>> THEN <<>> ELSE since
         IN UNION { LET take == PopTake(k, result, c)
                    IN PopLoop(SubSeq(c, take + 1, Len(c)),
                               s0 \o SubSeq(c, 1, take),
                               result \o SubSeq(c, 1, take),
                               candidates, k) : c \in refills }

\* pool: self.cycle_pool[category]; returns the possible
\* (result, new pool, new history) triples
PopFromCycle(pool, since, type_key, candidates, k) ==
    IF candidates = <<>>
    THEN {[result |-> <<>>, pool |-> pool, since |-> since]}
    ELSE LET cur0 == Get(pool, type_key, <<>>)
             starts == IF cur0 = <<>> THEN Perms(candidates) ELSE {cur0}
             s0 == IF cur0 = <<>> THEN <<>> ELSE Get(since, type_key, <<>>)
         IN { [result |-> r.result,
               pool |-> Put(pool, type_key, r.cur),
               since |-> Put(since, type_key, r.since)] :
              r \in UNION {PopLoop(c, s0, <<>>, candidates, k) : c \in starts} }

(***************************************************************************)
(* Configuration, catalogs and metadata.                                   *)
(***************************************************************************)
\* self.main_config.get(key, default)
CfgGet(key, default) == Get(main_config, key, default)

\* defaults of the configuration keys
CheckpointWeightDefault == 150
CharWeightDefault == 100
LoraDbWeightDefault == 50
DbWeightMaxDefault == 100
DbWeightMinDefault == 1

\* a metadata entry: its weight property, a number, absent or not a number;
\* "notdict" is an entry whose value is not a mapping
P(n) == [kind |-> "num", val |-> n]
PAbsent == [kind |-> "absent", val |-> 0]
PStr == [kind |-> "str", val |-> 0]
PNotDict == [kind |-> "notdict", val |-> 0]

\* the files under CheckpointPath (get_checkpoint_files)
CheckpointCatalog ==
    [t \in {"il", "xl"} |->
        [i \in (IF t = "il" THEN {"a", "b", "c"} ELSE {"a"}) |->
            Path("checkpoints", t, "", i)]]

\* the files under LoraPath (get_loras_files): sub-folders char and etc
LoraCatalog ==
    [t \in {"il", "xl"} |->
        IF t = "il"
        THEN [f \in {"char", "etc"} |->
                [i \in (IF f = "char" THEN {"a", "b"} ELSE {"b", "c"}) |->
                    Path("loras", t, f, i)]]
        ELSE [f \in {"char", "etc"} |->
                [i \in (IF f = "char" THEN {"a"} ELSE {"c"}) |-> Path("loras", t, f, i)]]]

\* mutant of Filtered: every key of the file is kept
FilteredAll(yml_data, valid_keys) == yml_data

\* {k: v for k, v in yml_data.items() if k in valid_keys}
Filtered(yml_data, valid_keys) ==
    [k \in DOMAIN yml_data \cap valid_keys |-> yml_data[k]]

\* the buckets get_data_files keeps of one sub-folder: the non-empty filtered ones
LoadBuckets(files, valid_keys) ==
    [f \in {g \in DOMAIN files : DOMAIN files[g] \cap valid_keys # {}} |->
        Filtered(files[f], valid_keys)]

\* valid_lora_keys: the files of every sub-folder of the type
ValidLoraKeys(catalog, type_key) ==
    UNION {DOMAIN catalog[type_key][f] : f \in DOMAIN catalog[type_key]}

\* get_data_files: disk is dataPath, type name -> sub-folder -> file -> content
get_data_files(disk, ck_catalog, lo_catalog) ==
    [type_key \in {Lower(n) : n \in DOMAIN disk} |->
        LET type_name == CHOOSE n \in DOMAIN disk : Lower(n) = type_key
            dir == disk[type_name]
            named == [key \in DOMAIN dir \cap {"WeightLora"} |-> dir[key]]
            ck == IF "checkpoint" \in DOMAIN dir /\ type_key \in DOMAIN ck_catalog
                  THEN LoadBuckets(dir["checkpoint"], DOMAIN ck_catalog[type_key])
                  ELSE EmptyDict
            lo == IF "lora" \in DOMAIN dir /\ type_key \in DOMAIN lo_catalog
                  THEN LoadBuckets(dir["lora"], ValidLoraKeys(lo_catalog, type_key))
                  ELSE EmptyDict
        IN ("checkpoint" :> ck) @@ ("lora" :> lo) @@ named]

\* mutant of ExtendKeys: the keys are not restricted to valid
RECURSIVE ExtendKeysAll(_, _, _)
ExtendKeysAll(buckets, order, valid) ==
    IF order = <<>> THEN <<>>
    ELSE (IF Head(order) \in DOMAIN buckets
          THEN KeysInOrder(buckets[Head(order)], IdOrder)
          ELSE <<>>) \o ExtendKeysAll(buckets, Tail(order), valid)

\* candidate_keys.extend(yml_data.keys()) over the buckets, optionally only the
\* keys of valid (the catalog sub-folder)
RECURSIVE ExtendKeys(_, _, _)
ExtendKeys(buckets, order, valid) ==
    IF order = <<>> THEN <<>>
    ELSE (IF Head(order) \in DOMAIN buckets
          THEN SelectSeq(KeysInOrder(buckets[Head(order)], IdOrder),
                         LAMBDA x : x \in valid)
          ELSE <<>>) \o ExtendKeys(buckets, Tail(order), valid)

\* float(v or 1.0) on the relative weights of a map of the configuration
OrOne(m) == [k \in DOMAIN m |-> IF m[k] = 0 THEN 1 ELSE m[k]]

\* not self.selected_type or self.selected_type.lower() not in self.data
TypeUnavailable == selected_type = "None" \/ Lower(selected_type) \notin DOMAIN data

(***************************************************************************)
(* History record of a call.                                               *)
(***************************************************************************)
Call(op, kind, outcome) ==
    [op |-> op, kind |-> kind, outcome |-> outcome, cands |-> <<>>,
     counts |-> <<>>, weights |-> <<>>, base |-> 0, min_w |-> 0, max_w |-> 0,
     k |-> 0, draws |-> 0, picks |-> {}, db_ok |-> TRUE, stages |-> <<>>,
     sels |-> <<>>, file |-> <<>>]

(***************************************************************************)
(* run: the driver loop. run.pc names the call the driver makes next       *)
(* ("off" where no driver runs, "done" after run returned); n counts the   *)
(* calls of the batch, shrunk, saved and ended are history.                *)
(***************************************************************************)
RunOps == {"set_checkpoint", "set_char", "set_lora", "db_save", "Queue_send"}

DriverRecord(pc) ==
    [pc |-> pc, at |-> "top", checkpoint_loop |-> 1, char_loop |-> 1,
     queue_loop |-> 1, idx |-> 0, last_ck_idx |-> -1, last_ch_idx |-> -1,
     n |-> [o \in RunOps |-> 0], shrunk |-> FALSE, saved |-> -1,
     ended |-> "none", exit |-> "none"]

WatchRecord(on) ==
    [on |-> on, pc |-> "idle", parts |-> <<>>, content |-> [ok |-> FALSE],
     pre |-> EmptyDict, post |-> EmptyDict]

\* no driver thread and no watcher thread: the handlers are called freely
DriverOff == run = DriverRecord("off") /\ watch = WatchRecord(FALSE)

\* the state after start_file_watcher, at the top of while True
DriverStarted == run = DriverRecord("get_main_config") /\ watch = WatchRecord(TRUE)

RunAllows(op) == run.pc \in {"off", op}

\* _loop_max_value: an int as it is, a non-empty list its max, else 0
\* (int(max(cfg_val)) truncates a non-integral max towards zero)
_loop_max_value(cfg_val) ==
    IF cfg_val.kind = "int" THEN cfg_val.v[1]
    ELSE IF cfg_val.v = <<>> THEN 0
    ELSE IF cfg_val.kind = "half"
    THEN LET m == SeqMax(cfg_val.v)
         IN IF m >= 0 THEN m \div 2 ELSE -((-m) \div 2)
    ELSE SeqMax(cfg_val.v)

\* mutant of LoopIndex: the character index never moves
LoopIndexFlat(idx, char_loop, queue_loop) ==
    [ck |-> idx \div (char_loop * queue_loop), ch |-> -1, q |-> idx % queue_loop]

\* ck_idx, ch_idx and q_idx of the one-dimensional index
LoopIndex(idx, char_loop, queue_loop) ==
    [ck |-> idx \div (char_loop * queue_loop),
     ch |-> (idx \div queue_loop) % char_loop,
     q |-> idx % queue_loop]

\* a level's freshly read maximum is below the index the batch is at; the
\* levels are CheckpointLoop, CharLoop and QueueLoop
Shrunk(cfg, r) ==
    LET i == LoopIndex(r.idx, r.char_loop, r.queue_loop)
    IN \/ _loop_max_value(Get(cfg, "CheckpointLoop", IntVal(r.checkpoint_loop))) < i.ck + 1
       \/ _loop_max_value(Get(cfg, "CharLoop", IntVal(r.char_loop))) < i.ch + 1
       \/ _loop_max_value(Get(cfg, "QueueLoop", IntVal(r.queue_loop))) < i.q + 1

\* the driver after its call op returned, cfg being self.main_config; the
\* body of for idx in range(total_iters) from one call to the next
RunAfter(op, cfg) ==
    LET r == run
        i == LoopIndex(r.idx, r.char_loop, r.queue_loop)
        total_iters == r.checkpoint_loop * r.char_loop * r.queue_loop
        cfg_ck_max == _loop_max_value(Get(cfg, "CheckpointLoop", IntVal(r.checkpoint_loop)))
        cfg_ch_max == _loop_max_value(Get(cfg, "CharLoop", IntVal(r.char_loop)))
        cfg_q_max == _loop_max_value(Get(cfg, "queueLoop", IntVal(r.queue_loop)))
        Counted(x) == [x EXCEPT !.n[op] = @ + 1]
        Top(x, how) == [x EXCEPT !.pc = "get_main_config", !.at = "top", !.ended = how]
        \* the end of the iteration: the next one, or the end of the batch
        NextIdx(x) ==
            IF x.idx + 1 < total_iters
            THEN [x EXCEPT !.idx = @ + 1, !.pc = "get_main_config", !.at = "iter"]
            ELSE IF Get(cfg, "test", FALSE)
            THEN [x EXCEPT !.pc = "stop_file_watcher", !.ended = "complete",
                           !.exit = "test"]
            ELSE Top(x, "complete")
        Queue(x) ==
            IF cfg_q_max # 0 /\ i.q + 1 > cfg_q_max THEN NextIdx(x)
            ELSE [x EXCEPT !.pc = "db_save"]
        Char(x) ==
            IF cfg_ch_max # 0 /\ i.ch + 1 > cfg_ch_max THEN NextIdx(x)
            ELSE IF i.ch # x.last_ch_idx THEN [x EXCEPT !.pc = "set_lora"]
            ELSE Queue(x)
        Checkpoint(x) ==
            IF cfg_ck_max # 0 /\ i.ck + 1 > cfg_ck_max THEN Top(x, "aborted")
            ELSE IF i.ck # x.last_ck_idx THEN [x EXCEPT !.pc = "set_char"]
            ELSE Char(x)
    IN IF r.pc = "off" THEN r
       ELSE CASE op = "get_main_config" ->
                   IF r.at = "top" THEN [r EXCEPT !.pc = "select_type"]
                   ELSE Checkpoint([r EXCEPT !.shrunk = @ \/ Shrunk(cfg, r)])
              [] op = "select_type" -> [r EXCEPT !.pc = "loop_counts"]
              [] op = "set_checkpoint" ->
                   [Counted(r) EXCEPT !.pc = "get_main_config", !.at = "iter"]
              [] op = "set_char" -> Char([Counted(r) EXCEPT !.last_ck_idx = i.ck])
              [] op = "set_lora" -> Queue([Counted(r) EXCEPT !.last_ch_idx = i.ch])
              [] op = "db_save" -> [Counted(r) EXCEPT !.pc = "Queue_send", !.saved = r.idx]
              [] op = "Queue_send" -> NextIdx(Counted(r))

\* the loop counts of a batch: random_int_or_value of the three settings
\* (5, 3, 3 where it raises); a count <= 0 sleeps and starts over
LoopCount(key, fallback) ==
    LET drawn == random_int_or_value(CfgGet(key, SeqVal(<<1, 1>>)))
    IN IF drawn = {} THEN {fallback} ELSE drawn

run_loop_counts ==
    /\ run.pc = "loop_counts"
    /\ \E ck \in LoopCount("CheckpointLoop", 5) : \E ch \in LoopCount("CharLoop", 3) :
       \E q \in LoopCount("QueueLoop", 3) :
          LET fresh == [DriverRecord("set_checkpoint") EXCEPT
                           !.checkpoint_loop = ck, !.char_loop = ch, !.queue_loop = q]
          IN run' = IF ck <= 0 \/ ch <= 0 \/ q <= 0
                    THEN [fresh EXCEPT !.pc = "get_main_config"]
                    ELSE fresh
    /\ last_call' = Call("run_loop_counts", "", "none")
    /\ UNCHANGED <<sel_vars, data, pop_vars, watch>>

\* Queue_send: pass
Queue_send ==
    /\ run.pc = "Queue_send"
    /\ run' = RunAfter("Queue_send", main_config)
    /\ last_call' = Call("Queue_send", "", "none")
    /\ UNCHANGED <<sel_vars, data, pop_vars, watch>>

\* KeyboardInterrupt or an exception anywhere in the loop: on to finally
run_except ==
    /\ run.pc \notin {"off", "stop_file_watcher", "join", "done"}
    /\ \E how \in {"interrupt", "error"} :
          run' = [run EXCEPT !.pc = "stop_file_watcher", !.exit = how]
    /\ last_call' = Call("run_except", "", "none")
    /\ UNCHANGED <<sel_vars, data, pop_vars, watch>>

\* mutant of stop_file_watcher: the observer is left running
stop_file_watcher_skip ==
    /\ run.pc = "stop_file_watcher"
    /\ run' = [run EXCEPT !.pc = "join"]
    /\ last_call' = Call("stop_file_watcher", "", "none")
    /\ UNCHANGED <<sel_vars, data, pop_vars, watch>>

\* finally: stop_file_watcher, FileWatcher.stop up to observer.stop()
stop_file_watcher ==
    /\ run.pc = "stop_file_watcher"
    /\ run' = [run EXCEPT !.pc = "join"]
    /\ watch' = [watch EXCEPT !.on = FALSE]
    /\ last_call' = Call("stop_file_watcher", "", "none")
    /\ UNCHANGED <<sel_vars, data, pop_vars>>

\* observer.join(timeout=5): returns when the watcher thread has ended, or
\* after the timeout with a callback still running; then run returns
observer_join ==
    /\ run.pc = "join"
    /\ \E timeout \in BOOLEAN : timeout \/ watch.pc = "idle"
    /\ run' = [run EXCEPT !.pc = "done"]
    /\ last_call' = Call("observer_join", "", "none")
    /\ UNCHANGED <<sel_vars, data, pop_vars, watch>>

(***************************************************************************)
(* The db strategy's weighting and the usage store's tables.               *)
(***************************************************************************)
\* the table the db strategy of a category searches: set_checkpoint searches
\* the database itself (db.search), set_char and set_lora their own table
DbReadTable(category) ==
    CASE category = "checkpoint" -> "_default"
      [] category = "char" -> "char"
      [] category = "lora" -> "lora"

\* the table db_save increments for a category
DbWriteTable(category) ==
    CASE category = "checkpoint" -> "checkpoint"
      [] category = "char" -> "char"
      [] category = "lora" -> "lora"

\* mutant of UsageCount: the count is read whether the database opened or not
UsageCountStale(category, key, db_ok) == Get(db[DbReadTable(category)], key, 0)

\* cnt of one key: the record's count, 0 without record or without database
UsageCount(category, key, db_ok) ==
    IF db_ok THEN Get(db[DbReadTable(category)], key, 0) ELSE 0

\* mutant of DbWeight: raised to min_w first, then capped at max_w
DbWeightFloorFirst(base_weight, min_w, max_w, cnt) ==
    LET w0 == base_weight - cnt
        w1 == IF w0 < min_w THEN min_w ELSE w0
        w2 == IF w1 > max_w THEN max_w ELSE w1
    IN Max(0, w2)

\* w = base_weight - cnt, capped at max_w, then raised to min_w; max(0, int(w))
DbWeight(base_weight, min_w, max_w, cnt) ==
    LET w0 == base_weight - cnt
        w1 == IF w0 > max_w THEN max_w ELSE w0
        w2 == IF w1 < min_w THEN min_w ELSE w1
    IN Max(0, w2)

\* the db branch's draw of one key: uniform when the weights sum to 0
DbChoice(candidate_keys, weights) ==
    IF SumOver(weights, Range(candidate_keys)) <= 0
    THEN Range(candidate_keys)
    ELSE {n \in Range(candidate_keys) : weights[n] > 0}

\* mutant of MergedWeights: one bucket's weight is kept for each key, not the sum
MergedWeightsOne(buckets, valid, default) ==
    LET entries == {<<y, k>> \in (DOMAIN buckets) \X valid :
                        k \in DOMAIN buckets[y] /\ buckets[y][k].kind # "notdict"}
        weight(e) == IF buckets[e[1]][e[2]].kind = "absent" THEN default
                     ELSE buckets[e[1]][e[2]].val
        of(k) == {e \in entries : e[2] = k}
    IN [err |-> \E e \in entries : buckets[e[1]][e[2]].kind = "str",
        w |-> [k \in {e[2] : e \in entries} |-> weight(CHOOSE e \in of(k) : TRUE)]]

\* merged_weights of the checkpoint and char weight strategies: the weight
\* property (or the default) of every mapping entry with a key in valid,
\* summed over the buckets; err when a weight cannot be added (not a number)
MergedWeights(buckets, valid, default) ==
    LET entries == {<<y, k>> \in (DOMAIN buckets) \X valid :
                        k \in DOMAIN buckets[y] /\ buckets[y][k].kind # "notdict"}
        weight(e) == IF buckets[e[1]][e[2]].kind = "absent" THEN default
                     ELSE buckets[e[1]][e[2]].val
        keys == {e[2] : e \in entries}
        of(k) == {e \in entries : e[2] = k}
    IN [err |-> \E e \in entries : buckets[e[1]][e[2]].kind = "str",
        w |-> [k \in keys |->
                 SumOver([e \in of(k) |-> weight(e)], of(k))]]

\* every key of every bucket
AllKeys(buckets) == UNION {DOMAIN buckets[y] : y \in DOMAIN buckets}

\* mutant of Single: the entry is added to the checkpoint selected before
SingleMerged(id, path) == [x \in {id} |-> path] @@ selected_Checkpoint

\* {selected: path}
Single(id, path) == [x \in {id} |-> path]

(***************************************************************************)
(* set_checkpoint.                                                         *)
(***************************************************************************)
\* self.checkpoint_files.get(type, {}).get(id)
CheckpointPathOf(id) ==
    Get(Get(checkpoint_files, Lower(selected_type), EmptyDict), id, NonePath)

\* mutant of Outcome: a call that stores nothing clears the Selection Result
OutcomeCleared(sel, category, call) ==
    [sel |-> IF call.outcome = "stored" THEN sel ELSE EmptyDict,
     pool |-> cycle_pool[category], since |-> cycle_since[category],
     log |-> cycle_log[category], call |-> call]

\* what a selection call leaves behind: the category's Selection Result, its
\* cycle pools and their histories, and the record of the call
Outcome(sel, category, call) ==
    [sel |-> sel, pool |-> cycle_pool[category], since |-> cycle_since[category],
     log |-> cycle_log[category], call |-> call]

\* the outcome of a cycle pop r of k identifiers
PopOutcome(sel, category, type_key, r, call) ==
    [sel |-> sel, pool |-> r.pool, since |-> r.since,
     log |-> IF log_on
             THEN Put(cycle_log[category], type_key,
                      Get(cycle_log[category], type_key, <<>>) \o r.result)
             ELSE cycle_log[category],
     call |-> call]

\* while the pops are recorded, the cycle strategy is taken only while the
\* pool's history has room
LogRoom(category, type_key, k) ==
    log_on => Len(Get(cycle_log[category], type_key, <<>>)) + Max(k, 0) <= MaxLog

\* the branches of set_checkpoint once the type's data is found
CheckpointStrategy(kind, db_ok) ==
    LET type_key == Lower(selected_type)
        type_data == Get(data, type_key, EmptyDict)
        checkpoint_yml == Get(type_data, "checkpoint", EmptyDict)
        keep(call) == {Outcome(selected_Checkpoint, "checkpoint", call)}
        store(id, call) ==
            Outcome(Single(id, CheckpointPathOf(id)), "checkpoint",
                    [call EXCEPT !.outcome = "stored", !.picks = {id}])
        c0 == Call("set_checkpoint", kind, "none")
    IN CASE kind = "weight" ->
            LET m == MergedWeights(checkpoint_yml, AllKeys(checkpoint_yml),
                                   CfgGet("CheckpointWeightDefault", CheckpointWeightDefault))
                c == [c0 EXCEPT !.cands = KeysInOrder(m.w, IdOrder), !.weights = m.w]
            IN IF m.err THEN keep([c0 EXCEPT !.outcome = "error"])
               ELSE IF DOMAIN m.w = {} THEN keep([c EXCEPT !.outcome = "no_candidates"])
               ELSE IF WeightedChoice(m.w) = {} THEN keep([c EXCEPT !.outcome = "error"])
               ELSE {store(id, c) : id \in WeightedChoice(m.w)}
         [] kind = "random" ->
            LET all_checkpoints == ExtendKeys(checkpoint_yml, BucketOrder, AllKeys(checkpoint_yml))
                c == [c0 EXCEPT !.cands = all_checkpoints]
            IN IF all_checkpoints = <<>> THEN keep([c EXCEPT !.outcome = "no_candidates"])
               ELSE {store(id, c) : id \in Range(all_checkpoints)}
         [] kind = "db" ->
            LET candidate_keys == ExtendKeys(checkpoint_yml, BucketOrder, AllKeys(checkpoint_yml))
                base_weight == CfgGet("CheckpointDbWeight",
                                      CfgGet("CheckpointWeightDefault", CheckpointWeightDefault))
                max_w == CfgGet("CheckpointDbWeightMax", DbWeightMaxDefault)
                min_w == CfgGet("CheckpointDbWeightMin", DbWeightMinDefault)
                counts == [k \in Range(candidate_keys) |-> UsageCount("checkpoint", k, db_ok)]
                weights == [k \in Range(candidate_keys) |->
                               DbWeight(base_weight, min_w, max_w, counts[k])]
                c == [c0 EXCEPT !.cands = candidate_keys, !.counts = counts,
                                !.weights = weights, !.base = base_weight,
                                !.min_w = min_w, !.max_w = max_w, !.db_ok = db_ok,
                                !.k = 1]
            IN IF candidate_keys = <<>> THEN keep([c EXCEPT !.outcome = "no_candidates"])
               ELSE {store(id, c) : id \in DbChoice(candidate_keys, weights)}
         [] kind = "cycle" ->
            LET candidate_keys == Dedup(ExtendKeys(checkpoint_yml, BucketOrder, AllKeys(checkpoint_yml)))
                c == [c0 EXCEPT !.cands = candidate_keys, !.k = 1]
            IN IF candidate_keys = <<>> THEN keep([c EXCEPT !.outcome = "no_candidates"])
               ELSE IF ~LogRoom("checkpoint", type_key, 1) THEN {}
               ELSE { IF r.result # <<>>
                      THEN PopOutcome(Single(r.result[1], CheckpointPathOf(r.result[1])),
                                      "checkpoint", type_key, r,
                                      [c EXCEPT !.outcome = "stored",
                                                !.picks = {r.result[1]}])
                      ELSE PopOutcome(selected_Checkpoint, "checkpoint", type_key, r, c) :
                      r \in PopFromCycle(cycle_pool["checkpoint"],
                                         cycle_since["checkpoint"],
                                         type_key, candidate_keys, 1) }
         [] OTHER -> keep(c0)

\* set_checkpoint, as the set of outcomes of one call
SetCheckpointOutcomes(db_ok) ==
    LET get_checkpoint_kind == CfgGet("GetCheckpointKind", EmptyDict)
        nothing(kind, why) ==
            Outcome(selected_Checkpoint, "checkpoint", Call("set_checkpoint", kind, why))
    IN IF DOMAIN get_checkpoint_kind = {}
       THEN {nothing("", "no_kind_map")}
       ELSE IF WeightedChoice(OrOne(get_checkpoint_kind)) = {}
       THEN {nothing("", "error")}
       ELSE UNION { IF TypeUnavailable THEN {nothing(kind, "no_type")}
                    ELSE CheckpointStrategy(kind, db_ok) :
                    kind \in WeightedChoice(OrOne(get_checkpoint_kind)) }

set_checkpoint ==
    /\ RunAllows("set_checkpoint")
    /\ \E db_ok \in BOOLEAN : \E o \in SetCheckpointOutcomes(db_ok) :
          /\ selected_Checkpoint' = o.sel
          /\ cycle_pool' = [cycle_pool EXCEPT !["checkpoint"] = o.pool]
          /\ cycle_since' = [cycle_since EXCEPT !["checkpoint"] = o.since]
          /\ cycle_log' = [cycle_log EXCEPT !["checkpoint"] = o.log]
          /\ last_call' = o.call
    /\ run' = RunAfter("set_checkpoint", main_config)
    /\ UNCHANGED <<main_config, checkpoint_files, lora_files, data, selected_type,
                   selected_char, selected_loras, db, committed, log_on, pop_vars, watch>>

(***************************************************************************)
(* set_char.                                                               *)
(***************************************************************************)
\* self.lora_files.get(type, {}).get(folder, {})
FolderFiles(folder) ==
    Get(Get(lora_files, Lower(selected_type), EmptyDict), folder, EmptyDict)

\* str(self.main_config.get('LoraCharPath', 'char')).lower()
char_folder == Lower(CfgGet("LoraCharPath", "char"))

\* str(self.main_config.get('LoraEtcPath', 'etc')).lower()
etc_folder == Lower(CfgGet("LoraEtcPath", "etc"))

\* the branches of set_char once the type's data is found
CharStrategy(kind, db_ok) ==
    LET type_key == Lower(selected_type)
        type_data == Get(data, type_key, EmptyDict)
        lora_yml == Get(type_data, "lora", EmptyDict)
        valid_char_keys == DOMAIN FolderFiles(char_folder)
        path(id) == Get(FolderFiles(char_folder), id, NonePath)
        keep(call) == {Outcome(selected_char, "char", call)}
        store(id, call) ==
            Outcome(Single(id, path(id)), "char",
                    [call EXCEPT !.outcome = "stored", !.picks = {id}])
        c0 == Call("set_char", kind, "none")
    IN CASE kind = "weight" ->
            LET m == MergedWeights(lora_yml, valid_char_keys,
                                   CfgGet("CharWeightDefault", CharWeightDefault))
                c == [c0 EXCEPT !.cands = KeysInOrder(m.w, IdOrder), !.weights = m.w]
            IN IF m.err THEN keep([c0 EXCEPT !.outcome = "error"])
               ELSE IF DOMAIN m.w = {} THEN keep([c EXCEPT !.outcome = "no_candidates"])
               ELSE IF WeightedChoice(m.w) = {} THEN keep([c EXCEPT !.outcome = "error"])
               ELSE {store(id, c) : id \in WeightedChoice(m.w)}
         [] kind = "random" ->
            LET all_loras == ExtendKeys(lora_yml, BucketOrder, valid_char_keys)
                c == [c0 EXCEPT !.cands = all_loras]
            IN IF all_loras = <<>> THEN keep([c EXCEPT !.outcome = "no_candidates"])
               ELSE {store(id, c) : id \in Range(all_loras)}
         [] kind = "db" ->
            LET candidate_keys == ExtendKeys(lora_yml, BucketOrder, valid_char_keys)
                base_weight == CfgGet("CharDbWeight",
                                      CfgGet("CharWeightDefault", CharWeightDefault))
                max_w == CfgGet("CharDbWeightMax", DbWeightMaxDefault)
                min_w == CfgGet("CharDbWeightMin", DbWeightMinDefault)
                counts == [k \in Range(candidate_keys) |-> UsageCount("char", k, db_ok)]
                weights == [k \in Range(candidate_keys) |->
                               DbWeight(base_weight, min_w, max_w, counts[k])]
                c == [c0 EXCEPT !.cands = candidate_keys, !.counts = counts,
                                !.weights = weights, !.base = base_weight,
                                !.min_w = min_w, !.max_w = max_w, !.db_ok = db_ok,
                                !.k = 1]
            IN IF candidate_keys = <<>> THEN keep([c EXCEPT !.outcome = "no_candidates"])
               ELSE {store(id, c) : id \in DbChoice(candidate_keys, weights)}
         [] kind \in {"wildcard", "skip"} ->
            {Outcome(NoneSel, "char", [c0 EXCEPT !.outcome = "stored"])}
         [] kind = "cycle" ->
            LET candidate_keys == Dedup(ExtendKeys(lora_yml, BucketOrder, valid_char_keys))
                c == [c0 EXCEPT !.cands = candidate_keys, !.k = 1]
            IN IF candidate_keys = <<>> THEN keep([c EXCEPT !.outcome = "no_candidates"])
               ELSE IF ~LogRoom("char", type_key, 1) THEN {}
               ELSE { IF r.result # <<>>
                      THEN PopOutcome(Single(r.result[1], path(r.result[1])),
                                      "char", type_key, r,
                                      [c EXCEPT !.outcome = "stored",
                                                !.picks = {r.result[1]}])
                      ELSE PopOutcome(selected_char, "char", type_key, r, c) :
                      r \in PopFromCycle(cycle_pool["char"], cycle_since["char"],
                                         type_key, candidate_keys, 1) }
         [] OTHER -> keep(c0)

\* set_char, as the set of outcomes of one call
SetCharOutcomes(db_ok) ==
    LET get_char_kind == CfgGet("GetCharKind", EmptyDict)
        nothing(kind, why) == Outcome(selected_char, "char", Call("set_char", kind, why))
    IN IF DOMAIN get_char_kind = {}
       THEN {nothing("", "no_kind_map")}
       ELSE IF WeightedChoice(OrOne(get_char_kind)) = {}
       THEN {nothing("", "error")}
       ELSE UNION { IF TypeUnavailable THEN {nothing(kind, "no_type")}
                    ELSE CharStrategy(kind, db_ok) :
                    kind \in WeightedChoice(OrOne(get_char_kind)) }

\* mutant of set_char: an error of the call leaves run
set_char_raise ==
    /\ RunAllows("set_char")
    /\ \E db_ok \in BOOLEAN : \E o \in SetCharOutcomes(db_ok) :
          /\ selected_char' = o.sel
          /\ cycle_pool' = [cycle_pool EXCEPT !["char"] = o.pool]
          /\ cycle_since' = [cycle_since EXCEPT !["char"] = o.since]
          /\ cycle_log' = [cycle_log EXCEPT !["char"] = o.log]
          /\ last_call' = o.call
    /\ run' = IF last_call'.outcome # "error" \/ run.pc = "off"
              THEN RunAfter("set_char", main_config)
              ELSE [run EXCEPT !.pc = "stop_file_watcher", !.exit = "error"]
    /\ UNCHANGED <<main_config, checkpoint_files, lora_files, data, selected_type,
                   selected_Checkpoint, selected_loras, db, committed, log_on, pop_vars, watch>>

\* set_char: one outcome of SetCharOutcomes
set_char ==
    /\ RunAllows("set_char")
    /\ \E db_ok \in BOOLEAN : \E o \in SetCharOutcomes(db_ok) :
          /\ selected_char' = o.sel
          /\ cycle_pool' = [cycle_pool EXCEPT !["char"] = o.pool]
          /\ cycle_since' = [cycle_since EXCEPT !["char"] = o.since]
          /\ cycle_log' = [cycle_log EXCEPT !["char"] = o.log]
          /\ last_call' = o.call
    /\ run' = RunAfter("set_char", main_config)
    /\ UNCHANGED <<main_config, checkpoint_files, lora_files, data, selected_type,
                   selected_Checkpoint, selected_loras, db, committed, log_on, pop_vars, watch>>

(***************************************************************************)
(* set_lora: the WeightYml resolver.                                       *)
(***************************************************************************)
SeriesOrder == <<"s1", "s2", "s3">>
GroupOrder == <<"g1", "g2">>

\* x or 1
OrOneInt(x) == IF x = 0 THEN 1 ELSE x

\* the sequences of n distinct elements of S
InjSeqs(S, n) ==
    {q \in [1..n -> S] : \A i, j \in 1..n : i # j => q[i] # q[j]}

\* random.random() < p, p in percent: never for 0.0, always for 1.0
Hit(p) == IF p <= 0 THEN {FALSE} ELSE IF p >= 100 THEN {TRUE} ELSE BOOLEAN

\* 1) the per stage over the remaining candidates: the possible per_selected
RECURSIVE PerStage(_, _, _, _)
PerStage(cands, dic, perMax, acc) ==
    IF cands = <<>> THEN {acc}
    ELSE LET s == Head(cands)
         IN IF "per" \notin DOMAIN dic[s]
            THEN PerStage(Tail(cands), dic, perMax, acc)
            ELSE UNION { IF hit
                         THEN IF Len(acc) + 1 >= perMax
                              THEN {Append(acc, s)}
                              ELSE PerStage(Tail(cands), dic, perMax, Append(acc, s))
                         ELSE PerStage(Tail(cands), dic, perMax, acc) :
                         hit \in Hit(dic[s]["per"]) }

\* 2) the weight stage: series_names, those with float(weight or 1.0) > 0
WeightSeries(cands, dic) ==
    SelectSeq(cands, LAMBDA s : "weight" \in DOMAIN dic[s]
                                /\ OrOneInt(dic[s]["weight"]) > 0)

\* the possible chosen lists: draws without replacement until pick_k are chosen
WeightStage(cands, dic, weightMax) ==
    LET series_names == WeightSeries(cands, dic)
        pick_k == Min(weightMax, Len(series_names))
    IN IF series_names = <<>> THEN {<<>>}
       ELSE InjSeqs(Range(series_names), Max(pick_k, 0))

\* 3) the total stage: random.sample(combined, totalMax) when combined is
\* longer; no list (ValueError) for a negative totalMax
TotalStage(combined, totalMax) ==
    IF Len(combined) > totalMax
    THEN IF totalMax < 0 THEN {} ELSE InjSeqs(Range(combined), totalMax)
    ELSE {combined}

\* one group: the possible stage results, with the perMax, weightMax and
\* totalMax that random_int_or_value returned (<<>> for a stage not run); err
\* when a stage raises
GroupOutcomes(g_id, g_cfg) ==
    LET dic == Get(g_cfg, "dic", EmptyDict)
        exclude_dic == Get(g_cfg, "excludeDic", {})
        candidates == SelectSeq(KeysInOrder(dic, SeriesOrder),
                                LAMBDA s : s \notin exclude_dic)
        perMaxes == random_int_or_value(Get(g_cfg, "perMax", SeqVal(<<1, 1>>)))
        weightMaxes == random_int_or_value(Get(g_cfg, "weightMax", SeqVal(<<1, 1>>)))
        totalMaxes == random_int_or_value(Get(g_cfg, "totalMax", SeqVal(<<1, 1>>)))
        off == [max |-> <<>>, sel |-> <<>>]
        pers == IF Get(g_cfg, "per", FALSE)
                THEN UNION {{[max |-> <<m>>, sel |-> p] :
                             p \in PerStage(candidates, dic, OrOneInt(m), <<>>)} :
                            m \in perMaxes}
                ELSE {off}
        weights == IF Get(g_cfg, "weight", FALSE)
                   THEN UNION {{[max |-> <<m>>, sel |-> w] :
                                w \in WeightStage(candidates, dic, OrOneInt(m))} :
                               m \in weightMaxes}
                   ELSE {off}
        rec(p, w, t, f, e) ==
            [g |-> g_id, per |-> p.sel, perMax |-> p.max, weight |-> w.sel,
             weightMax |-> w.max, combined |-> Dedup(p.sel \o w.sel),
             totalMax |-> t, final |-> f, err |-> e]
        failed == rec(off, off, <<>>, <<>>, TRUE)
    IN IF DOMAIN dic = {} THEN {rec(off, off, <<>>, <<>>, FALSE)}
       ELSE IF Get(g_cfg, "per", FALSE) /\ perMaxes = {} THEN {failed}
       ELSE UNION { IF Get(g_cfg, "weight", FALSE) /\ weightMaxes = {} THEN {failed}
                     ELSE UNION { LET combined == Dedup(p.sel \o w.sel)
                                  IN IF Get(g_cfg, "total", FALSE) /\ combined # <<>>
                                     THEN IF totalMaxes = {} THEN {failed}
                                          ELSE UNION { IF TotalStage(combined, OrOneInt(m)) = {}
                                                       THEN {failed}
                                                       ELSE {rec(p, w, <<m>>, f, FALSE) :
                                                             f \in TotalStage(combined, OrOneInt(m))} :
                                                       m \in totalMaxes }
                                     ELSE {rec(p, w, <<>>, combined, FALSE)} :
                                  w \in weights } :
                     p \in pers }

\* the groups in order: the possible lists of their stage results
RECURSIVE AllGroups(_, _)
AllGroups(weight_cfg, order) ==
    IF order = <<>> THEN {<<>>}
    ELSE IF Head(order) \notin DOMAIN weight_cfg THEN AllGroups(weight_cfg, Tail(order))
    ELSE { <<g>> \o rest : g \in GroupOutcomes(Head(order), weight_cfg[Head(order)]),
                           rest \in AllGroups(weight_cfg, Tail(order)) }

\* the weight of a metadata entry in the resolver: its number, else the default
YmlWeight(props, default) == IF props.kind = "num" THEN props.val ELSE default

\* random.choices, and random.choice when it raises
ChoiceOrUniform(w) == IF WeightedChoice(w) = {} THEN DOMAIN w ELSE WeightedChoice(w)

\* ids -> props over a list of buckets, a later bucket overwriting an earlier one
RECURSIVE CollectLoras(_, _)
CollectLoras(type_lora_ymls, yml_list) ==
    IF yml_list = <<>> THEN EmptyDict
    ELSE LET front == CollectLoras(type_lora_ymls, SubSeq(yml_list, 1, Len(yml_list) - 1))
             y == yml_list[Len(yml_list)]
         IN IF y \in DOMAIN type_lora_ymls THEN type_lora_ymls[y] @@ front ELSE front

\* mutant of SeriesPicks: no draw from the type's whole lora metadata
SeriesPicksOwn(s_cfg, type_lora_ymls, lora_default_weight) ==
    LET loras_map == Get(s_cfg, "loras", EmptyDict)
        cand == CollectLoras(type_lora_ymls, Get(s_cfg, "ymls", <<>>))
    IN IF DOMAIN loras_map # {} THEN DOMAIN loras_map ELSE DOMAIN cand

\* the lora ids one surviving series can resolve to (none: no pick)
SeriesPicks(s_cfg, type_lora_ymls, lora_default_weight) ==
    LET loras_map == Get(s_cfg, "loras", EmptyDict)
        ymls == Get(s_cfg, "ymls", <<>>)
        cand == CollectLoras(type_lora_ymls, ymls)
        all_ids == CollectLoras(type_lora_ymls, KeysInOrder(type_lora_ymls, BucketOrder))
        by_props(ids) == ChoiceOrUniform([n \in DOMAIN ids |->
                                             YmlWeight(ids[n], lora_default_weight)])
    IN IF DOMAIN loras_map # {}
       THEN ChoiceOrUniform([n \in DOMAIN loras_map |->
                                IF loras_map[n] = 0 THEN lora_default_weight
                                ELSE loras_map[n]])
       ELSE IF ymls # <<>> /\ DOMAIN cand # {} THEN by_props(cand)
       ELSE IF DOMAIN all_ids # {} THEN by_props(all_ids)
       ELSE {}

\* the surviving (group, series) pairs of a list of group results
RECURSIVE SelectedSeries(_)
SelectedSeries(groups) ==
    IF groups = <<>> THEN <<>>
    ELSE [i \in 1..Len(groups[1].final) |-> <<groups[1].g, groups[1].final[i]>>]
         \o SelectedSeries(Tail(groups))

\* the possible draws of the surviving series, in order: <<group, series, sel>>
\* for every series that has something to draw from
RECURSIVE SeriesDraws(_, _, _)
SeriesDraws(selected_series, weight_cfg, type_lora_ymls) ==
    IF selected_series = <<>> THEN {<<>>}
    ELSE LET gs == Head(selected_series)
             picks == SeriesPicks(weight_cfg[gs[1]]["dic"][gs[2]], type_lora_ymls,
                                  CfgGet("LoraWeightYmlWeight", 1))
             rest == SeriesDraws(Tail(selected_series), weight_cfg, type_lora_ymls)
         IN IF picks = {} THEN rest
            ELSE {<<<<gs[1], gs[2], p>>>> \o r : p \in picks, r \in rest}

\* the keys of mapped: the draws that have a path in the etc folder
MappedKeys(draws, valid) == {draws[i][3] : i \in DOMAIN draws} \cap valid

(***************************************************************************)
(* set_lora.                                                               *)
(***************************************************************************)
\* merged_weights of the etc-lora weight strategy: float(w) of a numeric
\* weight, 1 for anything else, summed over the buckets
LoraMergedWeights(buckets, valid) ==
    LET entries == {<<y, k>> \in (DOMAIN buckets) \X valid : k \in DOMAIN buckets[y]}
        weight(e) == IF buckets[e[1]][e[2]].kind = "num" THEN buckets[e[1]][e[2]].val
                     ELSE 1
        of(k) == {e \in entries : e[2] = k}
    IN [k \in {e[2] : e \in entries} |-> SumOver([e \in of(k) |-> weight(e)], of(k))]

\* mutant of PickSets: one draw less than k
PickSetsLess(S, k) ==
    IF k <= 1 THEN {{}} ELSE {T \in SUBSET S : T # {} /\ Cardinality(T) <= k - 1}

\* the key sets of k draws with replacement from S
PickSets(S, k) ==
    IF k <= 0 THEN {{}} ELSE {T \in SUBSET S : T # {} /\ Cardinality(T) <= k}

\* {l: self.lora_files.get(type, {}).get(etc_folder, {}).get(l) for l in selected}
Mapped(ids) == [l \in ids |-> Get(FolderFiles(etc_folder), l, NonePath)]

\* the branches of set_lora once the type's data is found
LoraStrategy(kind, db_ok) ==
    LET type_key == Lower(selected_type)
        type_data == Get(data, type_key, EmptyDict)
        lora_yml == Get(type_data, "lora", EmptyDict)
        valid_etc_keys == DOMAIN FolderFiles(etc_folder)
        keep(call) == {Outcome(selected_loras, "lora", call)}
        store(ids, call) ==
            Outcome(Mapped(ids), "lora", [call EXCEPT !.outcome = "stored", !.picks = ids])
        c0 == Call("set_lora", kind, "none")
    IN CASE kind = "weight" ->
            LET merged_weights == LoraMergedWeights(lora_yml, valid_etc_keys)
                cnts == random_int_or_value(CfgGet("LoraWeightCnt", SeqVal(<<1, 1>>)))
                c == [c0 EXCEPT !.cands = KeysInOrder(merged_weights, IdOrder),
                                !.weights = merged_weights]
            IN IF DOMAIN merged_weights = {} THEN keep([c EXCEPT !.outcome = "no_candidates"])
               ELSE IF cnts = {} \/ WeightedChoice(merged_weights) = {}
               THEN keep([c EXCEPT !.outcome = "error"])
               ELSE UNION { LET draws == Min(lora_cnt, Cardinality(DOMAIN merged_weights))
                            IN {store(ids, [c EXCEPT !.k = lora_cnt, !.draws = draws]) :
                                ids \in PickSets(WeightedChoice(merged_weights), draws)} :
                            lora_cnt \in cnts }
         [] kind = "weightyml" ->
            LET weight_cfg == Get(type_data, "WeightLora", EmptyDict)
            IN IF DOMAIN weight_cfg = {} THEN keep([c0 EXCEPT !.outcome = "no_config"])
               ELSE UNION { IF \E i \in DOMAIN groups : groups[i].err
                            THEN keep([c0 EXCEPT !.outcome = "error"])
                            ELSE { LET c == [c0 EXCEPT !.stages = groups, !.sels = draws]
                                       ids == MappedKeys(draws, valid_etc_keys)
                                   IN IF ids # {}
                                      THEN store(ids, c)
                                      ELSE Outcome(selected_loras, "lora",
                                                   [c EXCEPT !.outcome = "no_pick"]) :
                                   draws \in SeriesDraws(SelectedSeries(groups), weight_cfg,
                                                         lora_yml) } :
                            groups \in AllGroups(weight_cfg, GroupOrder) }
         [] kind = "db" ->
            LET candidate_keys == ExtendKeys(lora_yml, BucketOrder, valid_etc_keys)
                base_weight == CfgGet("LoraDbWeight", LoraDbWeightDefault)
                max_w == CfgGet("LoraDbWeightMax", DbWeightMaxDefault)
                min_w == CfgGet("LoraDbWeightMin", DbWeightMinDefault)
                counts == [k \in Range(candidate_keys) |-> UsageCount("lora", k, db_ok)]
                weights == [k \in Range(candidate_keys) |->
                               DbWeight(base_weight, min_w, max_w, counts[k])]
                cnts == random_int_or_value(CfgGet("LoraDbCnt", SeqVal(<<1, 1>>)))
                c == [c0 EXCEPT !.cands = candidate_keys, !.counts = counts,
                                !.weights = weights, !.base = base_weight,
                                !.min_w = min_w, !.max_w = max_w, !.db_ok = db_ok]
            IN IF candidate_keys = <<>> THEN keep([c EXCEPT !.outcome = "no_candidates"])
               ELSE IF cnts = {} THEN keep([c EXCEPT !.outcome = "error"])
               ELSE UNION { LET draws == Min(lora_cnt, Len(candidate_keys))
                            IN {store(ids, [c EXCEPT !.k = lora_cnt, !.draws = draws]) :
                                ids \in PickSets(DbChoice(candidate_keys, weights), draws)} :
                            lora_cnt \in cnts }
         [] kind = "random" ->
            LET all_loras == ExtendKeys(lora_yml, BucketOrder, valid_etc_keys)
                cnts == random_int_or_value(CfgGet("LoraRandomCnt", SeqVal(<<1, 1>>)))
                c == [c0 EXCEPT !.cands = all_loras]
            IN IF all_loras = <<>> THEN keep([c EXCEPT !.outcome = "no_candidates"])
               ELSE IF cnts = {} THEN keep([c EXCEPT !.outcome = "error"])
               ELSE UNION { LET draws == Min(lora_cnt, Len(all_loras))
                            IN {store(ids, [c EXCEPT !.k = lora_cnt, !.draws = draws]) :
                                ids \in PickSets(Range(all_loras), draws)} :
                            lora_cnt \in cnts }
         [] kind = "wildcard" ->
            {Outcome(EmptyDict, "lora", [c0 EXCEPT !.outcome = "stored"])}
         [] kind = "cycle" ->
            LET candidate_keys == Dedup(ExtendKeys(lora_yml, BucketOrder, valid_etc_keys))
                cnts == random_int_or_value(CfgGet("LoraCycleCnt", SeqVal(<<1, 1>>)))
                c == [c0 EXCEPT !.cands = candidate_keys]
            IN IF candidate_keys = <<>> THEN keep([c EXCEPT !.outcome = "no_candidates"])
               ELSE IF cnts = {} THEN keep([c EXCEPT !.outcome = "error"])
               ELSE UNION { IF ~LogRoom("lora", type_key, lora_cnt) THEN {}
                            ELSE { IF r.result # <<>>
                                   THEN PopOutcome(Mapped(Range(r.result)), "lora", type_key, r,
                                                   [c EXCEPT !.outcome = "stored",
                                                             !.k = lora_cnt,
                                                             !.draws = Len(r.result),
                                                             !.picks = Range(r.result)])
                                   ELSE PopOutcome(selected_loras, "lora", type_key, r,
                                                   [c EXCEPT !.outcome = "error",
                                                             !.k = lora_cnt]) :
                                   r \in PopFromCycle(cycle_pool["lora"], cycle_since["lora"],
                                                      type_key, candidate_keys, lora_cnt) } :
                            lora_cnt \in cnts }
         [] OTHER -> keep(c0)

\* set_lora, as the set of outcomes of one call
SetLoraOutcomes(db_ok) ==
    LET get_lora_kind == CfgGet("GetLoraKind", EmptyDict)
        nothing(kind, why) == Outcome(selected_loras, "lora", Call("set_lora", kind, why))
    IN IF DOMAIN get_lora_kind = {}
       THEN {nothing("", "no_kind_map")}
       ELSE IF WeightedChoice(OrOne(get_lora_kind)) = {}
       THEN {nothing("", "error")}
       ELSE UNION { IF TypeUnavailable THEN {nothing(kind, "no_type")}
                    ELSE LoraStrategy(kind, db_ok) :
                    kind \in WeightedChoice(OrOne(get_lora_kind)) }

set_lora ==
    /\ RunAllows("set_lora")
    /\ \E db_ok \in BOOLEAN : \E o \in SetLoraOutcomes(db_ok) :
          /\ selected_loras' = o.sel
          /\ cycle_pool' = [cycle_pool EXCEPT !["lora"] = o.pool]
          /\ cycle_since' = [cycle_since EXCEPT !["lora"] = o.since]
          /\ cycle_log' = [cycle_log EXCEPT !["lora"] = o.log]
          /\ last_call' = o.call
    /\ run' = RunAfter("set_lora", main_config)
    /\ UNCHANGED <<main_config, checkpoint_files, lora_files, data, selected_type,
                   selected_Checkpoint, selected_char, db, committed, log_on, pop_vars, watch>>

(***************************************************************************)
(* db_save.                                                                *)
(***************************************************************************)
\* _extract_keys_simple: the string keys of a Selection Result, none for None
extract_keys_simple(obj) == IF obj = NoneSel THEN {} ELSE DOMAIN obj

\* mutant of IncTable: a record of count 1 is written whether or not the key
\* has one
IncTableInsert(table, keys) ==
    [k \in DOMAIN table \cup keys |-> IF k \in keys THEN 1 ELSE table[k]]

\* _inc_table_key on every key of keys: update count + 1, or insert count 1
IncTable(table, keys) ==
    [k \in DOMAIN table \cup keys |->
        IF k \in keys THEN Get(table, k, 0) + 1 ELSE table[k]]

\* the keys db_save increments in the table of a category; failed: the keys
\* whose search or write raises inside _inc_table_key
SavedKeys(category, failed) ==
    LET sel == CASE category = "checkpoint" -> selected_Checkpoint
                 [] category = "char" -> selected_char
                 [] category = "lora" -> selected_loras
    IN extract_keys_simple(sel) \ failed

\* the tables after db_save
SavedDb(failed) ==
    [t \in Tables |->
        IF \E c \in Categories : DbWriteTable(c) = t
        THEN IncTable(db[t], UNION {SavedKeys(c, failed) :
                                    c \in {x \in Categories : DbWriteTable(x) = t}})
        ELSE db[t]]

\* mutant of db_save: the error of the store leaves run
db_save_raise ==
    /\ RunAllows("db_save")
    /\ \E db_ok \in BOOLEAN : \E failed \in SUBSET Ids :
          /\ db_ok => \A c \in Categories : \A k \in SavedKeys(c, failed) :
                          Get(db[DbWriteTable(c)], k, 0) < MaxCount
          /\ db' = IF db_ok THEN SavedDb(failed) ELSE db
          /\ committed' = IF db_ok
                          THEN [c \in Categories |-> IncTable(committed[c], SavedKeys(c, failed))]
                          ELSE committed
          /\ last_call' = [Call("db_save", "",
                                IF ~db_ok THEN "error"
                                ELSE IF \E c \in Categories :
                                          SavedKeys(c, failed) # SavedKeys(c, {})
                                THEN "partial" ELSE "saved")
                           EXCEPT !.db_ok = db_ok]
    /\ run' = IF last_call'.outcome = "saved" \/ run.pc = "off"
              THEN RunAfter("db_save", main_config)
              ELSE [run EXCEPT !.pc = "stop_file_watcher", !.exit = "error"]
    /\ UNCHANGED <<main_config, checkpoint_files, lora_files, data, selected_type,
                   selected_Checkpoint, selected_char, selected_loras, cycle_pool,
                   cycle_since, cycle_log, log_on, pop_vars, watch>>

\* db_ok: TinyDB opens count.db
db_save ==
    /\ RunAllows("db_save")
    /\ \E db_ok \in BOOLEAN : \E failed \in SUBSET Ids :
          /\ db_ok => \A c \in Categories : \A k \in SavedKeys(c, failed) :
                          Get(db[DbWriteTable(c)], k, 0) < MaxCount
          /\ db' = IF db_ok THEN SavedDb(failed) ELSE db
          /\ committed' = IF db_ok
                          THEN [c \in Categories |-> IncTable(committed[c], SavedKeys(c, failed))]
                          ELSE committed
          /\ last_call' = [Call("db_save", "",
                                IF ~db_ok THEN "error"
                                ELSE IF \E c \in Categories :
                                          SavedKeys(c, failed) # SavedKeys(c, {})
                                THEN "partial" ELSE "saved")
                           EXCEPT !.db_ok = db_ok]
    /\ run' = RunAfter("db_save", main_config)
    /\ UNCHANGED <<main_config, checkpoint_files, lora_files, data, selected_type,
                   selected_Checkpoint, selected_char, selected_loras, cycle_pool,
                   cycle_since, cycle_log, log_on, pop_vars, watch>>

(***************************************************************************)
(* run: the type draw and the re-read of the configuration.                *)
(***************************************************************************)
\* one of the names of CheckpointTypes, drawn by weight; unchanged without types
select_type ==
    /\ RunAllows("select_type")
    /\ LET checkpoint_types == CfgGet("CheckpointTypes", EmptyDict)
       IN IF DOMAIN checkpoint_types = {}
          THEN selected_type' = selected_type
          ELSE selected_type' \in ChoiceOrUniform(OrOne(checkpoint_types))
    /\ last_call' = Call("select_type", "", "none")
    /\ run' = RunAfter("select_type", main_config)
    /\ UNCHANGED <<main_config, checkpoint_files, lora_files, data,
                   selected_Checkpoint, selected_char, selected_loras, cycle_pool,
                   cycle_since, cycle_log, db, committed, log_on, pop_vars, watch>>

\* get_main_config: config.yml as it is now, one of configs
get_main_config(configs) ==
    /\ RunAllows("get_main_config")
    /\ main_config' \in configs
    /\ last_call' = Call("get_main_config", "", "none")
    /\ run' = RunAfter("get_main_config", main_config')
    /\ UNCHANGED <<checkpoint_files, lora_files, data, selected_type,
                   selected_Checkpoint, selected_char, selected_loras, cycle_pool,
                   cycle_since, cycle_log, db, committed, log_on, pop_vars, watch>>

(***************************************************************************)
(* The watcher's callback: on_data_files_changed(file_path).               *)
(***************************************************************************)
\* update_specific_data_file: parts is the path below dataPath, content the
\* loaded file ([ok |-> FALSE] when it does not load as a mapping)
update_specific_data_file(parts, content) ==
    IF Len(parts) < 2 THEN data
    ELSE LET type_key == Lower(parts[1])
             file_name == parts[Len(parts)]
             d0 == IF type_key \in DOMAIN data THEN data ELSE Put(data, type_key, EmptyDict)
             type_data == d0[type_key]
             bucket(sub, valid) ==
                 LET with_sub == Put(type_data, sub, Get(type_data, sub, EmptyDict))
                     filtered == Filtered(content.yml, valid)
                 IN IF content.ok /\ DOMAIN filtered # {}
                    THEN Put(with_sub, sub, Put(with_sub[sub], file_name, filtered))
                    ELSE with_sub
         IN IF Len(parts) = 2
            THEN IF file_name = "WeightLora" /\ content.ok
                 THEN Put(d0, type_key, Put(type_data, "WeightLora", content.yml))
                 ELSE d0
            ELSE IF parts[2] = "checkpoint" /\ type_key \in DOMAIN checkpoint_files
            THEN Put(d0, type_key, bucket("checkpoint", DOMAIN checkpoint_files[type_key]))
            ELSE IF parts[2] = "lora" /\ type_key \in DOMAIN lora_files
            THEN Put(d0, type_key, bucket("lora", ValidLoraKeys(lora_files, type_key)))
            ELSE d0

on_data_files_changed(files, contents) ==
    /\ \E parts \in files : \E content \in contents :
          /\ data' = update_specific_data_file(parts, content)
          /\ last_call' = [Call("on_data_files_changed", "", "none")
                           EXCEPT !.file = <<parts, content>>]
    /\ UNCHANGED <<main_config, checkpoint_files, lora_files, selected_type,
                   selected_Checkpoint, selected_char, selected_loras, cycle_pool,
                   cycle_since, cycle_log, db, committed, log_on, pop_vars, run, watch>>

(***************************************************************************)
(* The callback as the watcher thread runs it beside the driver: the       *)
(* writes of update_specific_data_file to self.data, one at a time.        *)
(***************************************************************************)
\* on_modified / on_created: the callback is called with a changed file
watch_dispatch(files, contents) ==
    /\ watch.on /\ watch.pc = "idle"
    /\ \E parts \in files : \E content \in contents :
          watch' = [watch EXCEPT !.pc = "entry", !.parts = parts, !.content = content,
                                 !.pre = data,
                                 !.post = update_specific_data_file(parts, content)]
    /\ last_call' = Call("watch_dispatch", "", "none")
    /\ UNCHANGED <<sel_vars, data, pop_vars, run>>

\* if type_key not in self.data: self.data[type_key] = {}
watch_entry ==
    /\ watch.pc = "entry"
    /\ LET type_key == Lower(watch.parts[1])
       IN data' = IF type_key \in DOMAIN data THEN data ELSE Put(data, type_key, EmptyDict)
    /\ watch' = [watch EXCEPT !.pc = "store"]
    /\ last_call' = Call("watch_entry", "", "none")
    /\ UNCHANGED <<sel_vars, pop_vars, run>>

\* mutant of watch_store: the callback also empties the cycle pools
watch_store_reset ==
    /\ watch.pc = "store"
    /\ data' = update_specific_data_file(watch.parts, watch.content)
    /\ cycle_pool' = [c \in DOMAIN cycle_pool |-> EmptyDict]
    /\ watch' = [watch EXCEPT !.pc = "idle"]
    /\ last_call' = Call("watch_store", "", "none")
    /\ UNCHANGED <<main_config, checkpoint_files, lora_files, selected_type,
                   selected_Checkpoint, selected_char, selected_loras, db,
                   cycle_log, log_on, cycle_since, committed, pop_vars, run>>

\* the file is loaded, filtered and stored under its type; the callback returns
watch_store ==
    /\ watch.pc = "store"
    /\ data' = update_specific_data_file(watch.parts, watch.content)
    /\ watch' = [watch EXCEPT !.pc = "idle"]
    /\ last_call' = Call("watch_store", "", "none")
    /\ UNCHANGED <<sel_vars, pop_vars, run>>

(***************************************************************************)
(* Initial states: dataPath as found at start-up, and config.yml.          *)
(***************************************************************************)
\* the IL folder: checkpoint a in two files, lora b in two files, and a key
\* (z) with no file in the catalog
DiskIL ==
    [checkpoint |-> [y \in {"y1", "y2"} |->
                        IF y = "y1" THEN ("a" :> P(1)) @@ ("b" :> PAbsent) @@ ("z" :> P(1))
                        ELSE ("a" :> P(2)) @@ ("c" :> P(1))],
     lora |-> [y \in {"y1", "y2"} |->
                  IF y = "y1" THEN ("a" :> P(1)) @@ ("b" :> P(1))
                  ELSE ("b" :> P(2)) @@ ("c" :> PAbsent)]]

\* the XL folder, with metadata for every file of its catalog
DiskXL ==
    [checkpoint |-> [y \in {"y1"} |-> ("a" :> P(1))],
     lora |-> [y \in {"y1"} |-> ("a" :> P(1)) @@ ("c" :> P(1))]]

\* an XL folder with no checkpoint metadata and lora metadata only for lora,
\* and a WeightLora.yml whose series names its loras
DiskXLOnly(lora) ==
    [checkpoint |-> [y \in {"y1"} |-> ("z" :> P(1))],
     lora |-> [y \in {"y1"} |-> (lora :> P(1))],
     WeightLora |-> [g \in {"g1"} |->
                       [weight |-> TRUE,
                        dic |-> [s \in {"s1"} |->
                                   [weight |-> 1, loras |-> ("c" :> 1)]]]]]

DiskMain == [t \in {"IL", "XL"} |-> IF t = "IL" THEN DiskIL ELSE DiskXL]
DiskNoXL == [t \in {"IL"} |-> DiskIL]
DiskSparse(lora) == [t \in {"IL", "XL"} |-> IF t = "IL" THEN DiskIL ELSE DiskXLOnly(lora)]

\* config.yml: the types, and what the specifications add to it
BaseConfig == [CheckpointTypes |-> [t \in {"IL", "XL"} |-> 1]]

With(cfg, key, value) == Put(cfg, key, value)

OnlyType(cfg, t) == With(cfg, "CheckpointTypes", [x \in {t} |-> 1])

\* a strategy map drawing each of kinds with the same relative probability
Kinds(kinds) == [k \in kinds |-> 1]

\* the state after __init__ and the loads of run(), given config.yml and dataPath
InitEngine(cfg, disk) ==
    /\ main_config = cfg
    /\ checkpoint_files = CheckpointCatalog
    /\ lora_files = LoraCatalog
    /\ data = get_data_files(disk, CheckpointCatalog, LoraCatalog)
    /\ selected_type = "None"
    /\ selected_Checkpoint = EmptyDict
    /\ selected_char = EmptyDict
    /\ selected_loras = EmptyDict
    /\ cycle_pool = [c \in Categories |-> EmptyDict]
    /\ cycle_since = [c \in Categories |-> EmptyDict]
    /\ cycle_log = [c \in Categories |-> EmptyDict]
    /\ db = [t \in Tables |-> EmptyDict]
    /\ committed = [c \in Categories |-> EmptyDict]
    /\ last_call = Call("init", "", "none")

PopIdle ==
    /\ pop_pc = "idle"
    /\ pop_cur = <<>>
    /\ pop_result = <<>>
    /\ pop_k = 0
    /\ pop_candidates = <<>>

(***************************************************************************)
(* SpecCycle: the cycle strategy of one category at a time, on metadata    *)
(* that does not change.                                                   *)
(***************************************************************************)
CycleConfigs ==
    { With(BaseConfig, "GetCheckpointKind", Kinds({"cycle"})),
      With(BaseConfig, "GetCharKind", Kinds({"cycle"})),
      With(OnlyType(BaseConfig, "IL"), "GetLoraKind", Kinds({"cycle"})),
      With(With(OnlyType(BaseConfig, "IL"), "GetLoraKind", Kinds({"cycle"})),
           "LoraCycleCnt", SeqVal(<<0, 3>>)) }

InitCycle ==
    /\ \E cfg \in CycleConfigs : InitEngine(cfg, DiskMain)
    /\ log_on = TRUE
    /\ PopIdle
    /\ DriverOff

NextCycle == set_checkpoint \/ set_char \/ set_lora \/ select_type

SpecCycle == InitCycle /\ [][NextCycle]_vars

(***************************************************************************)
(* SpecPop: one _pop_from_cycle call at a time, statement by statement, on *)
(* the pool of one category and type; the candidates and k are any the     *)
(* callers can pass.                                                       *)
(***************************************************************************)
PopCategory == "lora"
PopTypeKey == "il"

\* the candidate lists: every list without repetition (the callers dedup)
CandidateLists ==
    UNION {Perms(SelectSeq(IdOrder, LAMBDA x : x \in S)) : S \in SUBSET Ids}

\* entry: the early return, pool.get and the refill of an empty pool
PopCall ==
    /\ pop_pc = "idle"
    /\ \E candidates \in CandidateLists, k \in (-1)..MaxK :
          /\ pop_candidates' = candidates
          /\ pop_k' = k
          /\ pop_result' = <<>>
          /\ IF candidates = <<>>
             THEN /\ pop_pc' = "done"
                  /\ pop_cur' = <<>>
             ELSE /\ pop_pc' = "loop"
                  /\ LET cur == Get(cycle_pool[PopCategory], PopTypeKey, <<>>)
                     IN IF cur = <<>>
                        THEN pop_cur' \in Perms(candidates)
                        ELSE pop_cur' = cur
    /\ UNCHANGED <<engine_vars, run, watch>>

\* one iteration of while len(result) < k
PopIter ==
    /\ pop_pc = "loop"
    /\ Len(pop_result) < pop_k
    /\ \E c \in (IF pop_cur = <<>> THEN Perms(pop_candidates) ELSE {pop_cur}) :
          LET take == PopTake(pop_k, pop_result, c)
          IN /\ pop_result' = pop_result \o SubSeq(c, 1, take)
             /\ pop_cur' = SubSeq(c, take + 1, Len(c))
    /\ UNCHANGED <<pop_pc, pop_k, pop_candidates>>
    /\ UNCHANGED <<engine_vars, run, watch>>

\* the loop ends: pool[type_key] = cur; return result
PopReturn ==
    /\ pop_pc = "loop"
    /\ Len(pop_result) >= pop_k
    /\ pop_pc' = "done"
    /\ cycle_pool' = [cycle_pool EXCEPT
                         ![PopCategory] = Put(@, PopTypeKey, pop_cur)]
    /\ UNCHANGED <<pop_cur, pop_result, pop_k, pop_candidates>>
    /\ UNCHANGED <<main_config, checkpoint_files, lora_files, data, selected_type,
                   selected_Checkpoint, selected_char, selected_loras, db,
                   cycle_log, log_on, cycle_since, committed, last_call, run, watch>>

\* the caller has the result; the next call can start
PopReset ==
    /\ pop_pc = "done"
    /\ pop_pc' = "idle"
    /\ pop_cur' = <<>>
    /\ pop_result' = <<>>
    /\ pop_k' = 0
    /\ pop_candidates' = <<>>
    /\ UNCHANGED <<engine_vars, run, watch>>

InitPop ==
    /\ InitEngine(With(OnlyType(BaseConfig, "IL"), "GetLoraKind", Kinds({"cycle"})),
                  DiskMain)
    /\ log_on = FALSE
    /\ PopIdle
    /\ DriverOff

NextPop == PopCall \/ PopIter \/ PopReturn \/ PopReset

\* the call runs in one thread, which executes its next statement
SpecPop ==
    /\ InitPop
    /\ [][NextPop]_vars
    /\ WF_vars(PopIter)
    /\ WF_vars(PopReturn)

\* the statement-level call and PopFromCycle agree: when the loop has ended,
\* (result, cur) is an outcome of PopFromCycle on the pool of the call
PopStepsMatch ==
    (pop_pc = "loop" /\ Len(pop_result) >= pop_k) =>
        \E r \in PopFromCycle(cycle_pool[PopCategory], EmptyDict, PopTypeKey,
                               pop_candidates, pop_k) :
            /\ r.result = pop_result
            /\ r.pool[PopTypeKey] = pop_cur

(***************************************************************************)
(* SpecWatch: the checkpoint cycle strategy while the watcher reloads the  *)
(* checkpoint metadata files of the type.                                  *)
(***************************************************************************)
WatchFiles == {<<"IL", "checkpoint", "y1">>, <<"IL", "checkpoint", "y2">>}

\* what a changed file holds: one key, two keys, only a key that is not in
\* the catalog, or nothing that loads
WatchContents ==
    { [ok |-> TRUE, yml |-> ("b" :> P(1))],
      [ok |-> TRUE, yml |-> ("a" :> P(1)) @@ ("c" :> P(1))],
      [ok |-> TRUE, yml |-> ("z" :> P(1))],
      [ok |-> FALSE, yml |-> EmptyDict] }

InitWatch ==
    /\ InitEngine(With(OnlyType(BaseConfig, "IL"), "GetCheckpointKind", Kinds({"cycle"})),
                  DiskMain)
    /\ log_on = FALSE
    /\ PopIdle
    /\ DriverOff

NextWatch ==
    \/ set_checkpoint
    \/ select_type
    \/ on_data_files_changed(WatchFiles, WatchContents)

SpecWatch == InitWatch /\ [][NextWatch]_vars

(***************************************************************************)
(* SpecDb: the db strategy and db_save, over settings of the base, minimum *)
(* and maximum weight, one category at a time and all three together.      *)
(***************************************************************************)
\* <<base, min, max>>: the floor above the counts, a cap below the base, a
\* negative floor, a floor above the cap, and negative bounds
DbSettings == {<<1, 1, 100>>, <<2, 0, 1>>, <<1, -1, 0>>, <<1, 2, 1>>, <<0, -2, -1>>}

KindKey(category) ==
    CASE category = "checkpoint" -> "GetCheckpointKind"
      [] category = "char" -> "GetCharKind"
      [] category = "lora" -> "GetLoraKind"

DbKey(category, suffix) ==
    CASE category = "checkpoint" -> "CheckpointDbWeight" \o suffix
      [] category = "char" -> "CharDbWeight" \o suffix
      [] category = "lora" -> "LoraDbWeight" \o suffix

DbConfig(cfg, category, s) ==
    With(With(With(With(cfg, KindKey(category), Kinds({"db"})),
                   DbKey(category, ""), s[1]),
              DbKey(category, "Min"), s[2]),
         DbKey(category, "Max"), s[3])

DbConfigs ==
    {DbConfig(OnlyType(BaseConfig, "IL"), c, s) : c \in Categories, s \in DbSettings}
    \cup {With(DbConfig(OnlyType(BaseConfig, "IL"), "lora", s), "LoraDbCnt", SeqVal(<<0, 2>>)) :
            s \in {<<1, 1, 100>>, <<2, 0, 1>>}}
    \cup {DbConfig(DbConfig(DbConfig(OnlyType(BaseConfig, "XL"), "checkpoint", s), "char", s),
                   "lora", s) : s \in {<<1, 1, 100>>, <<2, 0, 1>>}}

InitDb ==
    /\ \E cfg \in DbConfigs : InitEngine(cfg, DiskMain)
    /\ log_on = FALSE
    /\ PopIdle
    /\ DriverOff

NextDb == set_checkpoint \/ set_char \/ set_lora \/ select_type \/ db_save

SpecDb == InitDb /\ [][NextDb]_vars

(***************************************************************************)
(* Spec: the three selection calls and db_save while config.yml is edited: *)
(* the strategy map of one category is set, emptied or removed.  The data  *)
(* has no folder for type XL, and no type is selected at the start.        *)
(***************************************************************************)
LoopKey(category) ==
    CASE category = "checkpoint" -> "CheckpointLoop"
      [] category = "char" -> "CharLoop"
      [] category = "lora" -> "QueueLoop"

\* a config.yml that configures one category: its loop count, no strategy map
ConfigFile(category) == With(BaseConfig, LoopKey(category), IntVal(1))

\* the edits of that file: the strategy map missing, empty, or one strategy
ConfigsOf(category) ==
    {ConfigFile(category)}
    \cup {With(ConfigFile(category), KindKey(category), m) :
             m \in {EmptyDict, Kinds({"cycle"})}}

\* the edits of the file main_config was read from
ConfigEdits == UNION {ConfigsOf(c) : c \in {x \in Categories : main_config \in ConfigsOf(x)}}

Init ==
    /\ \E c \in Categories :
          InitEngine(With(ConfigFile(c), KindKey(c), Kinds({"cycle"})), DiskNoXL)
    /\ log_on = FALSE
    /\ PopIdle
    /\ DriverOff

Next ==
    \/ set_checkpoint
    \/ set_char
    \/ set_lora
    \/ select_type
    \/ db_save
    \/ get_main_config(ConfigEdits)

Spec == Init /\ [][Next]_vars

(***************************************************************************)
(* SpecEmpty: every strategy of every category on data where type XL has   *)
(* no checkpoint candidates, and either no character or no etc-lora        *)
(* candidates.                                                             *)
(***************************************************************************)
KindsOf(category) ==
    CASE category = "checkpoint" -> {"weight", "random", "db", "cycle"}
      [] category = "char" -> {"weight", "random", "db", "wildcard", "skip", "cycle"}
      [] category = "lora" -> {"weight", "weightyml", "db", "random", "wildcard", "cycle"}

EmptyConfigs ==
    UNION {{With(BaseConfig, KindKey(c), Kinds({k})) : k \in KindsOf(c)} : c \in Categories}

InitEmpty ==
    /\ \E cfg \in EmptyConfigs : \E lora \in {"a", "c"} : InitEngine(cfg, DiskSparse(lora))
    /\ log_on = FALSE
    /\ PopIdle
    /\ DriverOff

NextEmpty == set_checkpoint \/ set_char \/ set_lora \/ select_type

SpecEmpty == InitEmpty /\ [][NextEmpty]_vars

(***************************************************************************)
(* Properties.                                                             *)
(***************************************************************************)
\* the Candidate Set of a category and type: the identifiers that are a key of
\* the catalog (of the category's sub-folder) and of some metadata document
CandidateSet(category, type_key) ==
    LET type_data == Get(data, type_key, EmptyDict)
        meta == AllKeys(Get(type_data,
                            IF category = "checkpoint" THEN "checkpoint" ELSE "lora",
                            EmptyDict))
        files == IF category = "checkpoint"
                 THEN DOMAIN Get(checkpoint_files, type_key, EmptyDict)
                 ELSE DOMAIN Get(Get(lora_files, type_key, EmptyDict),
                                 IF category = "char" THEN "char" ELSE "etc", EmptyDict)
    IN meta \cap files

NoRepeat(s) == \A i, j \in DOMAIN s : i # j => s[i] # s[j]

\* the pops of a category's cycle strategy take one identifier each
PopsOneByOne(category) ==
    category = "lora" =>
        random_int_or_value(CfgGet("LoraCycleCnt", SeqVal(<<1, 1>>))) = {1}

\* C1: with a fixed candidate set of n identifiers and a pool that starts
\* empty, the pops with k = 1 number m*n+1 .. (m+1)*n return each candidate
\* exactly once, for every m: no identifier repeats inside such a block, and a
\* complete block is the whole candidate set.
C1_CycleExhaustion ==
    \A category \in Categories : \A t \in DOMAIN cycle_log[category] :
        PopsOneByOne(category) =>
            LET log == cycle_log[category][t]
                C == CandidateSet(category, t)
                n == Cardinality(C)
            IN \A m \in 0..MaxLog :
                  m * n < Len(log) =>
                      LET block == SubSeq(log, m * n + 1, Min((m + 1) * n, Len(log)))
                      IN /\ NoRepeat(block)
                         /\ Range(block) \subseteq C
                         /\ Len(block) = n => Range(block) = C

\* C1 witness: the checkpoint pool of il (three candidates, one of them in two
\* metadata files) has been popped through two full cycles
C1_Witness ==
    /\ "il" \in DOMAIN cycle_log["checkpoint"]
    /\ Len(cycle_log["checkpoint"]["il"]) = 6
    /\ Cardinality(CandidateSet("checkpoint", "il")) = 3

\* C4: with a fixed candidate set, after every pop the remaining pool is
\* duplicate-free and inside the candidate set, and the identifiers popped
\* since the last refill together with the remaining pool are exactly the
\* candidate set.
C4_PoolInvariant ==
    \A category \in Categories : \A t \in DOMAIN cycle_pool[category] :
        LET cur == cycle_pool[category][t]
            C == CandidateSet(category, t)
        IN /\ NoRepeat(cur)
           /\ Range(cur) \subseteq C
           /\ Range(cur) \cup Range(cycle_since[category][t]) = C

\* C4 witness: a pop of three from the two-candidate etc-lora pool, which
\* refilled the pool inside the call and left one identifier in it
C4_Witness ==
    /\ last_call.op = "set_lora" /\ last_call.kind = "cycle" /\ last_call.k = 3
    /\ Len(last_call.cands) = 2
    /\ "il" \in DOMAIN cycle_pool["lora"]
    /\ Len(cycle_pool["lora"]["il"]) = 1
    /\ Len(cycle_since["lora"]["il"]) = 1


C2_PopWithinCandidates ==
    (last_call.kind = "cycle" /\ last_call.outcome = "stored") =>
        last_call.picks \subseteq Range(last_call.cands)


\* the category a selection call works on, and the Selection Result it holds
OpCategory(op) ==
    CASE op = "set_checkpoint" -> "checkpoint"
      [] op = "set_char" -> "char"
      [] op = "set_lora" -> "lora"

SelectionOf(category) ==
    CASE category = "checkpoint" -> selected_Checkpoint
      [] category = "char" -> selected_char
      [] category = "lora" -> selected_loras

\* the last call was the db strategy of a category, on candidates
DbDispatched ==
    /\ last_call.op \in {"set_checkpoint", "set_char", "set_lora"}
    /\ last_call.kind = "db"
    /\ last_call.cands # <<>>

\* C5: the usage count the db strategy of a category reads for an identifier
\* is the number of increments db_save has committed for that identifier in
\* that category, 0 if it never committed one.
C5_ReadsCommitted ==
    (DbDispatched /\ last_call.db_ok) =>
        \A id \in Range(last_call.cands) :
            last_call.counts[id] = Get(committed[OpCategory(last_call.op)], id, 0)

\* C6: no step lowers or deletes a usage count, and a successful db_save
\* raises by exactly 1 the count of every identifier of the current selection
\* of each category and changes no other count.
C6_CountsMonotone ==
    [][ /\ \A t \in Tables : \A k \in DOMAIN db[t] :
              k \in DOMAIN db'[t] /\ db'[t][k] >= db[t][k]
        /\ (last_call'.op = "db_save" /\ last_call'.outcome = "saved") =>
              \A c \in Categories : \A k \in Ids :
                  Get(db'[DbWriteTable(c)], k, 0) =
                      Get(db[DbWriteTable(c)], k, 0)
                          + (IF k \in Keys(SelectionOf(c)) THEN 1 ELSE 0) ]_vars

\* C6 witness: a db_save has raised the count of the selected etc-lora to 2
\* next to the count of another one
C6_Witness ==
    /\ last_call.op = "db_save" /\ last_call.outcome = "saved"
    /\ Keys(selected_loras) = {"b"}
    /\ Get(db["lora"], "b", 0) = 2
    /\ Get(db["lora"], "c", 0) = 1

\* clamp(x, lo, hi)
Clamp(x, lo, hi) == Max(lo, Min(x, hi))

\* C7, as stated: the db weight of every candidate is
\* clamp(base_weight - usage_count, min_weight, max_weight), negative bounds
\* and min_weight > max_weight included.
C7_WeightIsClamp ==
    DbDispatched =>
        \A id \in Range(last_call.cands) :
            last_call.weights[id] =
                Clamp(last_call.base - last_call.counts[id], last_call.min_w, last_call.max_w)

\* C7, amended: the db weight of every candidate is
\* max(0, clamp(base_weight - usage_count, min_weight, max_weight)), where the
\* clamp caps at max_weight and then raises to min_weight (min_weight wins
\* when it is above max_weight).
C7_WeightIsClampAtLeastZero ==
    DbDispatched =>
        \A id \in Range(last_call.cands) :
            last_call.weights[id] =
                Max(0, Clamp(last_call.base - last_call.counts[id],
                             last_call.min_w, last_call.max_w))

\* C7 witness: the etc-lora db strategy has weighted a lora of count 2 under
\* base 1 and a negative floor
C7_Witness ==
    /\ DbDispatched /\ last_call.op = "set_lora"
    /\ last_call.base = 1 /\ last_call.min_w = -1 /\ last_call.max_w = 0
    /\ \E id \in Range(last_call.cands) :
          last_call.counts[id] = 2 /\ last_call.weights[id] = 0

\* C8, as stated: the db strategy dispatched on a non-empty candidate set
\* stores a non-empty pick drawn from that candidate set.
C8_DbStoresPick ==
    DbDispatched =>
        /\ last_call.outcome = "stored"
        /\ last_call.picks # {}
        /\ last_call.picks \subseteq Range(last_call.cands)
        /\ Keys(SelectionOf(OpCategory(last_call.op))) = last_call.picks

\* C8, amended: the db strategy dispatched on a non-empty candidate set, with
\* a pick count of at least 1 (always 1 for checkpoint and character, the
\* resolved LoraDbCnt for etc-lora), stores a non-empty pick drawn from that
\* candidate set.
C8_DbStoresPickWhenCounted ==
    (DbDispatched /\ last_call.k >= 1) =>
        /\ last_call.outcome = "stored"
        /\ last_call.picks # {}
        /\ last_call.picks \subseteq Range(last_call.cands)
        /\ Keys(SelectionOf(OpCategory(last_call.op))) = last_call.picks

\* C8 witness: every weight of two or more candidates is 0 and the uniform
\* fallback has stored a pick
C8_Witness ==
    /\ DbDispatched /\ last_call.outcome = "stored"
    /\ Len(last_call.cands) >= 2
    /\ \A id \in Range(last_call.cands) : last_call.weights[id] = 0
    /\ last_call.picks # {}
    /\ Keys(SelectionOf(OpCategory(last_call.op))) = last_call.picks


\* the selection call of a category
SetOp(category) ==
    CASE category = "checkpoint" -> "set_checkpoint"
      [] category = "char" -> "set_char"
      [] category = "lora" -> "set_lora"

\* the category's strategy map is empty or missing
NoKindMap(category) == DOMAIN CfgGet(KindKey(category), EmptyDict) = {}

\* C9: a call of set_checkpoint, set_char or set_lora made while the
\* category's strategy map is empty or missing, or while no type is selected
\* or the selected type has no loaded data, leaves the category's Selection
\* Result, the cycle pools and the usage counts unchanged.
C9_NoMapNoTypeNoOp ==
    [][ \A c \in Categories :
          (last_call'.op = SetOp(c) /\ (NoKindMap(c) \/ TypeUnavailable)) =>
              /\ SelectionOf(c)' = SelectionOf(c)
              /\ cycle_pool' = cycle_pool
              /\ db' = db ]_vars

\* C9 witness: set_checkpoint has returned for want of a strategy map, the
\* key missing from the configuration, with a checkpoint selected, a pool
\* partly used and a count stored
C9_Witness ==
    /\ last_call.op = "set_checkpoint" /\ last_call.outcome = "no_kind_map"
    /\ "GetCheckpointKind" \notin DOMAIN main_config
    /\ Keys(selected_Checkpoint) # {}
    /\ Len(Get(cycle_pool["checkpoint"], "il", <<>>)) = 2
    /\ Get(db["checkpoint"], "a", 0) = 1

\* the strategies that draw from the Candidate Set
CandidateKinds == {"weight", "random", "db", "cycle"}

\* the active type has data and no candidate of the category
NoCandidates(category) ==
    /\ ~TypeUnavailable
    /\ CandidateSet(category, Lower(selected_type)) = {}

\* C10, as stated: with an empty Candidate Set of the active type, a
\* selection call leaves the category's Selection Result unchanged, whatever
\* strategy is drawn.
C10_EmptyCandidatesNoOp ==
    [][ \A c \in Categories :
          (last_call'.op = SetOp(c) /\ NoCandidates(c)) =>
              SelectionOf(c)' = SelectionOf(c) ]_vars

\* C10, amended: with an empty Candidate Set of the active type, a selection
\* call that draws the weight, random, db or cycle strategy leaves the
\* category's Selection Result unchanged.
C10_EmptyCandidatesNoOpDrawing ==
    [][ \A c \in Categories :
          (/\ last_call'.op = SetOp(c)
           /\ last_call'.kind \in CandidateKinds
           /\ NoCandidates(c)) =>
              SelectionOf(c)' = SelectionOf(c) ]_vars

\* C10 witness: the character cycle strategy has run on a type without
\* character candidates and the character selected before is still selected
C10_Witness ==
    /\ last_call.op = "set_char" /\ last_call.kind = "cycle"
    /\ last_call.outcome = "no_candidates"
    /\ NoCandidates("char")
    /\ Keys(selected_char) # {}

(***************************************************************************)
(* SpecYml: the etc-lora category of type IL with a WeightLora.yml, the    *)
(* strategy drawn among weightyml and random.                              *)
(***************************************************************************)
\* WeightLora.yml: one group with per alone, perMax 1, a series that is never
\* included and one that always is
YmlPerDoc ==
    [g \in {"g1"} |->
        [per |-> TRUE, perMax |-> IntVal(1),
         dic |-> [s \in {"s1", "s2"} |-> IF s = "s1" THEN [per |-> 0] ELSE [per |-> 100]]]]

\* WeightLora.yml: one group with the three stages, caps that are ranges
\* from 0, a series of weight 0, every series naming its lora
YmlCapsDoc ==
    [g \in {"g1"} |->
        [per |-> TRUE, perMax |-> SeqVal(<<0, 2>>),
         weight |-> TRUE, weightMax |-> SeqVal(<<0, 2>>),
         total |-> TRUE, totalMax |-> SeqVal(<<0, 2>>),
         dic |-> [s \in {"s1", "s2", "s3"} |->
                    CASE s = "s1" -> [per |-> 50, weight |-> 1, loras |-> ("c" :> 1)]
                      [] s = "s2" -> [per |-> 100, weight |-> 0, loras |-> ("a" :> 1)]
                      [] s = "s3" -> [weight |-> 2, loras |-> ("b" :> 1)]]]]

\* WeightLora.yml: two groups without total, the first excluding a series
\* and the second group; a series of negative weight and a series drawing
\* from one metadata file
YmlGroupsDoc ==
    [g \in {"g1", "g2"} |->
        IF g = "g1"
        THEN [per |-> TRUE, perMax |-> IntVal(2),
              weight |-> TRUE, weightMax |-> IntVal(2),
              excludeDic |-> {"s3"}, excludeGroups |-> {"g2"},
              dic |-> [s \in {"s1", "s2", "s3"} |->
                         CASE s = "s1" -> [per |-> 100, weight |-> 1, ymls |-> <<"y2">>]
                           [] s = "s2" -> [per |-> 50, weight |-> 3, loras |-> ("b" :> 0)]
                           [] s = "s3" -> [per |-> 100, weight |-> 5]]]
        ELSE [weight |-> TRUE, weightMax |-> IntVal(0),
              dic |-> [s \in {"s1", "s2"} |->
                         IF s = "s1" THEN [weight |-> 1, loras |-> ("c" :> 1)]
                         ELSE [weight |-> -1]]]]

YmlDocs == {YmlPerDoc, YmlCapsDoc, YmlGroupsDoc}

\* dataPath with the IL folder and its WeightLora.yml
DiskYml(doc) == [t \in {"IL"} |-> DiskIL @@ [WeightLora |-> doc]]

InitYml ==
    /\ \E doc \in YmlDocs :
          InitEngine(With(OnlyType(BaseConfig, "IL"), "GetLoraKind",
                          Kinds({"weightyml", "random"})),
                     DiskYml(doc))
    /\ log_on = FALSE
    /\ PopIdle
    /\ DriverOff

NextYml == set_lora \/ select_type

SpecYml == InitYml /\ [][NextYml]_vars

(***************************************************************************)
(* Properties of the stored Selection Results.                             *)
(***************************************************************************)
\* the last call dispatched a strategy that ran to its end on candidates:
\* it stored its picks, or (weightyml) none of its picks had a path
RanToEnd(category) ==
    /\ last_call.op = SetOp(category)
    /\ last_call.outcome \in {"stored", "no_pick"}

\* C11, as stated: after a selection call that dispatches a strategy on a
\* non-empty candidate set, the category's Selection Result contains only
\* identifiers picked by that call, also when the call's picks resolve to no
\* path: the previous result is never kept instead of the new one.
C11_ResultReplacedInFull ==
    \A c \in Categories :
        RanToEnd(c) => Keys(SelectionOf(c)) \subseteq last_call.picks

(***************************************************************************)
(* SpecWeight: the weight strategy of the three categories, on metadata    *)
(* with numeric, missing and non-numeric weight properties.                *)
(***************************************************************************)
\* an IL folder with weights that are not numbers: checkpoint a, lora a in
\* y1.yml and lora b in y2.yml; lora c is not a mapping
DiskILText ==
    [checkpoint |-> [y \in {"y1", "y2"} |->
                        IF y = "y1" THEN ("a" :> PStr) @@ ("b" :> P(1))
                        ELSE ("b" :> P(2)) @@ ("c" :> PAbsent)],
     lora |-> [y \in {"y1", "y2"} |->
                  IF y = "y1" THEN ("a" :> PStr) @@ ("b" :> P(1))
                  ELSE ("b" :> PStr) @@ ("c" :> PNotDict)]]

DiskText == [t \in {"IL", "XL"} |-> IF t = "IL" THEN DiskILText ELSE DiskXL]

\* config.yml with the weight strategy alone for every category
WeightConfig ==
    With(With(With(BaseConfig, "GetCheckpointKind", Kinds({"weight"})),
              "GetCharKind", Kinds({"weight"})),
         "GetLoraKind", Kinds({"weight"}))

WeightConfigs ==
    { WeightConfig,
      With(With(WeightConfig, "CheckpointWeightDefault", 2), "CharWeightDefault", 3),
      With(WeightConfig, "LoraWeightCnt", SeqVal(<<1, 2>>)) }

InitWeight ==
    /\ \E cfg \in WeightConfigs : \E disk \in {DiskMain, DiskText} : InitEngine(cfg, disk)
    /\ log_on = FALSE
    /\ PopIdle
    /\ DriverOff

NextWeight == set_checkpoint \/ set_char \/ set_lora \/ select_type

SpecWeight == InitWeight /\ [][NextWeight]_vars

\* the catalog bucket a category selects from, for one type
CatalogOf(category, type_key) ==
    IF category = "checkpoint" THEN Get(checkpoint_files, type_key, EmptyDict)
    ELSE Get(Get(lora_files, type_key, EmptyDict),
             IF category = "char" THEN char_folder ELSE etc_folder, EmptyDict)

ReloadFiles == {<<"IL", "lora", "y1">>, <<"IL", "lora", "y2">>}

\* what a changed lora file holds: one key of each sub-folder's files
ReloadContents ==
    { [ok |-> TRUE, yml |-> ("a" :> P(1))],
      [ok |-> TRUE, yml |-> ("b" :> P(1))],
      [ok |-> TRUE, yml |-> ("c" :> P(1))] }

ReloadConfigs ==
    { With(With(OnlyType(BaseConfig, "IL"), "GetCharKind", Kinds({"cycle", "weight"})),
           "GetLoraKind", Kinds({"cycle", "random"})),
      With(With(OnlyType(BaseConfig, "IL"), "GetCharKind", Kinds({"random"})),
           "GetLoraKind", Kinds({"db", "weight"})) }

InitReload ==
    /\ \E cfg \in ReloadConfigs : InitEngine(cfg, DiskMain)
    /\ log_on = FALSE
    /\ PopIdle
    /\ DriverOff

NextReload ==
    \/ set_char
    \/ set_lora
    \/ select_type
    \/ on_data_files_changed(ReloadFiles, ReloadContents)

SpecReload == InitReload /\ [][NextReload]_vars

\* C13, as stated: only Candidate Set members are selectable: after any
\* sequence of selection calls and metadata reloads, every identifier stored
\* by the weight, random, db or cycle strategy of the character (resp.
\* etc-lora) category is, at the time of the call, a key of the catalog's
\* char (resp. etc) bucket of the active type and a key of at least one
\* metadata document of that type.
C13_OnlyCandidatesStored ==
    \A c \in {"char", "lora"} :
        (/\ last_call.op = SetOp(c)
         /\ last_call.kind \in CandidateKinds
         /\ last_call.outcome = "stored") =>
            last_call.picks \subseteq CandidateSet(c, Lower(selected_type))

WeightDefaultOf(category) ==
    CASE category = "checkpoint" -> CfgGet("CheckpointWeightDefault", CheckpointWeightDefault)
      [] category = "char" -> CfgGet("CharWeightDefault", CharWeightDefault)
      [] category = "lora" -> 1

\* the metadata buckets a category of the active type reads
BucketsOf(category) ==
    Get(Get(data, Lower(selected_type), EmptyDict),
        IF category = "checkpoint" THEN "checkpoint" ELSE "lora", EmptyDict)

\* the contributions of the buckets that define id, added one bucket at a time
RECURSIVE BucketSum(_, _, _, _)
BucketSum(buckets, order, id, default) ==
    IF order = <<>> THEN 0
    ELSE LET y == Head(order)
             here == IF y \in DOMAIN buckets /\ id \in DOMAIN buckets[y]
                     THEN IF buckets[y][id].kind = "num" THEN buckets[y][id].val
                          ELSE default
                     ELSE 0
         IN here + BucketSum(buckets, Tail(order), id, default)

\* C15: in the weight strategy the weight of an identifier equals the sum,
\* over all metadata buckets of the type that define it, of its weight
\* property (or the default when absent): an identifier defined in two
\* buckets accumulates both contributions.
C15_WeightsSummed ==
    \A c \in Categories :
        (/\ last_call.op = SetOp(c)
         /\ last_call.kind = "weight"
         /\ last_call.outcome = "stored") =>
            /\ DOMAIN last_call.weights = CandidateSet(c, Lower(selected_type))
            /\ \A id \in DOMAIN last_call.weights :
                  last_call.weights[id] =
                      BucketSum(BucketsOf(c), BucketOrder, id, WeightDefaultOf(c))

\* C15 witness: the checkpoint weight strategy has drawn among a, defined
\* with weight 1 in y1.yml and 2 in y2.yml, b without weight and c
C15_Witness ==
    /\ last_call.op = "set_checkpoint" /\ last_call.kind = "weight"
    /\ last_call.outcome = "stored"
    /\ DOMAIN last_call.weights = {"a", "b", "c"}
    /\ last_call.weights["a"] = 3
    /\ last_call.weights["b"] = WeightDefaultOf("checkpoint")
    /\ {y \in DOMAIN BucketsOf("checkpoint") : "a" \in DOMAIN BucketsOf("checkpoint")[y]}
           = {"y1", "y2"}

\* a candidate of the category has a weight property that is not a number
MalformedWeight(category) ==
    \E y \in DOMAIN BucketsOf(category) :
        \E id \in DOMAIN BucketsOf(category)[y] \cap
                  CandidateSet(category, Lower(selected_type)) :
            BucketsOf(category)[y][id].kind = "str"

\* C16, as stated: when a candidate's weight property is non-numeric, the
\* weight strategy of every category treats it as the default and still
\* completes the selection: a pick is stored.
C16_MalformedWeightStillPicks ==
    \A c \in Categories :
        (/\ last_call.op = SetOp(c)
         /\ last_call.kind = "weight"
         /\ ~TypeUnavailable
         /\ MalformedWeight(c)) =>
            /\ last_call.outcome = "stored"
            /\ last_call.picks # {}
            /\ Keys(SelectionOf(c)) = last_call.picks

(***************************************************************************)
(* SpecZero: a configuration whose maps give one entry the relative        *)
(* probability 0, and a WeightLora.yml with a series of weight 0.          *)
(***************************************************************************)
\* WeightLora.yml: one group drawing one series by weight, s2 of weight 0
YmlZeroDoc ==
    [g \in {"g1"} |->
        [weight |-> TRUE, weightMax |-> IntVal(1),
         dic |-> [s \in {"s1", "s2"} |->
                    IF s = "s1" THEN [weight |-> 1, loras |-> ("b" :> 1)]
                    ELSE [weight |-> 0, loras |-> ("c" :> 1)]]]]

DiskZero ==
    [t \in {"IL", "XL"} |->
        IF t = "IL" THEN DiskIL @@ [WeightLora |-> YmlZeroDoc]
        ELSE DiskXL @@ [WeightLora |-> YmlZeroDoc]]

\* config.yml: type XL and one strategy of every category with weight 0
ZeroConfig ==
    [CheckpointTypes |-> [t \in {"IL", "XL"} |-> IF t = "IL" THEN 1 ELSE 0],
     GetCheckpointKind |-> [k \in {"weight", "random"} |-> IF k = "weight" THEN 1 ELSE 0],
     GetCharKind |-> [k \in {"random", "skip"} |-> IF k = "random" THEN 1 ELSE 0],
     GetLoraKind |-> [k \in {"weightyml", "wildcard"} |-> IF k = "weightyml" THEN 1 ELSE 0]]

InitZero ==
    /\ InitEngine(ZeroConfig, DiskZero)
    /\ log_on = FALSE
    /\ PopIdle
    /\ DriverOff

NextZero == set_checkpoint \/ set_char \/ set_lora \/ select_type

SpecZero == InitZero /\ [][NextZero]_vars

\* the weight a WeightLora series declares, 1 when it declares none
SeriesWeight(g, s) ==
    Get(Get(data, Lower(selected_type), EmptyDict)["WeightLora"][g]["dic"][s], "weight", 1)

\* C17, as stated: an item whose configured weight is 0 is never drawn when
\* another item has positive weight: a type with weight 0 is never selected,
\* a strategy with relative probability 0 is never dispatched, and a
\* WeightYml series with weight 0 is never chosen by the weight stage.
C17_ZeroWeightNeverDrawn ==
    /\ selected_type # "None" => CfgGet("CheckpointTypes", EmptyDict)[selected_type] > 0
    /\ \A c \in Categories :
          (last_call.op = SetOp(c) /\ last_call.kind # "") =>
              CfgGet(KindKey(c), EmptyDict)[last_call.kind] > 0
    /\ \A i \in DOMAIN last_call.stages :
          \A s \in Range(last_call.stages[i].weight) :
              SeriesWeight(last_call.stages[i].g, s) > 0

(***************************************************************************)
(* Properties of the WeightYml resolver's stages.                          *)
(***************************************************************************)
\* the WeightLora.yml group of a stage record, and its series not excluded
GroupCfg(g) == Get(data, Lower(selected_type), EmptyDict)["WeightLora"][g]

NotExcluded(g) == DOMAIN GroupCfg(g)["dic"] \ Get(GroupCfg(g), "excludeDic", {})

\* the stage records of the last call in which the per stage ran
PerRecords == {r \in Range(last_call.stages) : r.perMax # <<>>}

\* C18, as stated: for a group with per enabled, the per-stage result never
\* holds more than the resolved perMax series, for every resolved
\* perMax >= 0; a series with per 0.0 is never included and a series with
\* per 1.0 is included unless the cap was reached.
C18_PerStageWithinPerMax ==
    \A r \in PerRecords :
        r.perMax[1] >= 0 =>
            /\ Len(r.per) <= r.perMax[1]
            /\ \A s \in Range(r.per) :
                  s \in NotExcluded(r.g) /\ Get(GroupCfg(r.g)["dic"][s], "per", 0) > 0
            /\ \A s \in NotExcluded(r.g) :
                  Get(GroupCfg(r.g)["dic"][s], "per", 0) >= 100 =>
                      s \in Range(r.per) \/ Len(r.per) >= r.perMax[1]

\* the stage records of the last call in which the weight stage ran
WeightRecords == {r \in Range(last_call.stages) : r.weightMax # <<>>}

\* the series of a group the weight stage may draw, as the claim counts
\* them: not excluded and declaring a weight
DeclaresWeight(g) == {s \in NotExcluded(g) : "weight" \in DOMAIN GroupCfg(g)["dic"][s]}

\* C19, as stated: for a group with weight enabled, the weight-stage result
\* contains pairwise distinct series, all of them non-excluded series that
\* declare a weight, and its size is exactly min(weightMax, number of
\* eligible series).
C19_WeightStageSize ==
    \A r \in WeightRecords :
        /\ NoRepeat(r.weight)
        /\ Range(r.weight) \subseteq DeclaresWeight(r.g)
        /\ Len(r.weight) = Min(r.weightMax[1], Cardinality(DeclaresWeight(r.g)))

\* s is made of front followed by the elements of back that front lacks, in
\* back's order
FirstSeenUnion(s, front, back) ==
    /\ NoRepeat(s)
    /\ Range(s) = Range(front) \cup Range(back)
    /\ SubSeq(s, 1, Len(front)) = front
    /\ \A i, j \in Len(front) + 1 .. Len(s) :
          i < j => \E a, b \in DOMAIN back : a < b /\ back[a] = s[i] /\ back[b] = s[j]

\* C20: for each group the surviving series are computed as the per stage,
\* then the weight stage, then their de-duplicated union in first-seen order,
\* then the total cap: the surviving series are always a duplicate-free
\* subset of the per-stage and weight-stage results together, and equal
\* that union when total is disabled.
C20_StageOrdering ==
    \A r \in Range(last_call.stages) :
        ~r.err =>
            /\ NoRepeat(r.final)
            /\ Range(r.final) \subseteq Range(r.per) \cup Range(r.weight)
            /\ ~Get(GroupCfg(r.g), "total", FALSE) =>
                   FirstSeenUnion(r.final, r.per, r.weight)
            /\ Get(GroupCfg(r.g), "total", FALSE) =>
                   \/ FirstSeenUnion(r.final, r.per, r.weight)
                   \/ /\ r.totalMax # <<>>
                      /\ Len(r.final) < Cardinality(Range(r.per) \cup Range(r.weight))

\* C20 witness: in a group without total the per stage kept s1 and s2 and the
\* weight stage drew s2 then s1, and the two series survive in per's order
C20_Witness ==
    \E r \in Range(last_call.stages) :
        /\ ~Get(GroupCfg(r.g), "total", FALSE)
        /\ r.per = <<"s1", "s2">>
        /\ r.weight = <<"s2", "s1">>
        /\ r.final = <<"s1", "s2">>

\* the stage records of the last call of groups that enable total
TotalRecords ==
    {r \in Range(last_call.stages) : ~r.err /\ Get(GroupCfg(r.g), "total", FALSE)}

\* C21, as stated: when a group enables total and its union holds more than
\* the resolved totalMax series, exactly totalMax series of the union
\* survive; a union of at most totalMax series survives unchanged; so with
\* total enabled a group never contributes more than totalMax series.
C21_TotalCap ==
    \A r \in TotalRecords :
        r.totalMax # <<>> =>
            /\ Len(r.combined) > r.totalMax[1] =>
                   /\ Len(r.final) = r.totalMax[1]
                   /\ Range(r.final) \subseteq Range(r.combined)
                   /\ NoRepeat(r.final)
            /\ Len(r.combined) <= r.totalMax[1] => r.final = r.combined
            /\ Len(r.final) <= r.totalMax[1]

\* the last call ran the WeightYml resolver to its end
ResolverRan ==
    /\ last_call.op = "set_lora" /\ last_call.kind = "weightyml"
    /\ last_call.outcome \in {"stored", "no_pick"}

\* the identifiers a series may draw: its loras map if it has one, else the
\* keys of its ymls files if they hold any, else every key of the type's
\* lora metadata
SeriesSource(g, s) ==
    LET s_cfg == GroupCfg(g)["dic"][s]
        own == UNION {DOMAIN BucketsOf("lora")[y] :
                      y \in Range(Get(s_cfg, "ymls", <<>>)) \cap DOMAIN BucketsOf("lora")}
    IN IF DOMAIN Get(s_cfg, "loras", EmptyDict) # {} THEN DOMAIN s_cfg["loras"]
       ELSE IF own # {} THEN own
       ELSE AllKeys(BucketsOf("lora"))

\* C22: every series that survives to the final set resolves exactly one
\* lora identifier, from its loras map if present, else from its ymls
\* files, else from the type's entire lora metadata: a surviving series
\* yields a pick whenever the type has any lora metadata.
C22_EverySeriesDraws ==
    (ResolverRan /\ AllKeys(BucketsOf("lora")) # {}) =>
        LET surviving == SelectedSeries(last_call.stages)
        IN /\ Len(last_call.sels) = Len(surviving)
           /\ \A i \in DOMAIN surviving :
                 /\ last_call.sels[i][1] = surviving[i][1]
                 /\ last_call.sels[i][2] = surviving[i][2]
                 /\ last_call.sels[i][3] \in SeriesSource(surviving[i][1], surviving[i][2])

\* C22 witness: a surviving series with neither loras nor ymls has drawn an
\* identifier from the type's lora metadata
C22_Witness ==
    /\ ResolverRan
    /\ \E i \in DOMAIN last_call.sels :
          LET s_cfg == GroupCfg(last_call.sels[i][1])["dic"][last_call.sels[i][2]]
          IN /\ "loras" \notin DOMAIN s_cfg /\ "ymls" \notin DOMAIN s_cfg
             /\ last_call.sels[i][3] \in AllKeys(BucketsOf("lora"))
             /\ last_call.sels[i][3] \in last_call.picks

\* the groups of the type's WeightLora.yml
GroupIds == DOMAIN Get(data, Lower(selected_type), EmptyDict)["WeightLora"]

\* C23, as stated: a series named in a group's excludeDic never appears in
\* the per-stage, weight-stage or final result of that group, and a group
\* named in a group's excludeGroups never appears in the resolver's results.
C23_ExclusionsRespected ==
    ResolverRan =>
        \A r \in Range(last_call.stages) :
            LET results == Range(r.per) \cup Range(r.weight) \cup Range(r.final)
            IN /\ results \cap Get(GroupCfg(r.g), "excludeDic", {}) = {}
               /\ (\E g \in GroupIds : r.g \in Get(GroupCfg(g), "excludeGroups", {}))
                      => results = {}


(***************************************************************************)
(* SpecRun: the driver loop from the top of while True to the return of    *)
(* run, with config.yml edited between any two reads, an interrupt or an   *)
(* error at any call, and the watcher thread beside it, called with the    *)
(* first metadata file of the XL folder.                                   *)
(***************************************************************************)
\* config.yml as it can be at a read: XL only, its checkpoint drawn by the
\* cycle strategy, the three loop settings and the test flag; or with a
\* strategy map that makes one category's call fail
RunConfigs ==
    LET base == With(OnlyType(BaseConfig, "XL"), "GetCheckpointKind", Kinds({"cycle"}))
        RunConfig(ck, ch, q, test) ==
            With(With(With(With(base, "CheckpointLoop", IntVal(ck)), "CharLoop", IntVal(ch)),
                      "QueueLoop", IntVal(q)), "test", test)
        \* a strategy map whose weights do not sum to more than zero: the
        \* draw of the kind raises in the category's call
        Failing(key) == With(RunConfig(1, 1, 1, TRUE), key, [k \in {"cycle"} |-> -1])
    IN {RunConfig(ck, ch, 1, test) : ck \in {0, 1, 2}, ch \in {1, 2}, test \in BOOLEAN}
          \cup {RunConfig(1, 1, 2, test) : test \in BOOLEAN}
          \cup {Failing(key) : key \in {"GetCheckpointKind", "GetCharKind", "GetLoraKind"}}

\* dataPath has no XL folder at start-up; its first file is written while the
\* driver runs
InitRun ==
    /\ \E cfg \in RunConfigs : InitEngine(cfg, DiskNoXL)
    /\ log_on = FALSE
    /\ PopIdle
    /\ DriverStarted

\* the steps of the driver thread
DriverNext ==
    \/ get_main_config(RunConfigs)
    \/ select_type
    \/ run_loop_counts
    \/ set_checkpoint
    \/ set_char
    \/ set_lora
    \/ db_save
    \/ Queue_send
    \/ stop_file_watcher
    \/ observer_join

NextRun ==
    \/ DriverNext
    \/ run_except
    \/ watch_dispatch({<<"XL", "checkpoint", "y1">>}, {[ok |-> TRUE, yml |-> ("a" :> P(2))]})
    \/ watch_entry
    \/ watch_store

SpecRun == InitRun /\ [][NextRun]_vars

\* the driver thread alone; it always takes its next step
SpecRunFair == InitRun /\ [][DriverNext]_vars /\ WF_vars(DriverNext)


(***************************************************************************)
(* The driver loop: boundaries, order, shrink, termination.                *)
(***************************************************************************)
\* the driver is in a batch (or a batch has ended) on counts that are all >= 1
BatchCounts ==
    run.checkpoint_loop >= 1 /\ run.char_loop >= 1 /\ run.queue_loop >= 1

\* C29: in every batch that runs to completion, on loop counts >= 1 and with no
\* index beyond a re-read maximum, set_checkpoint is called at most as often
\* as set_char and set_char at most as often as set_lora
C29_LoopBoundaries ==
    (run.ended = "complete" /\ BatchCounts /\ ~run.shrunk)
        => /\ run.n["set_checkpoint"] <= run.n["set_char"]
           /\ run.n["set_char"] <= run.n["set_lora"]


\* C30: every Queue_send of the driver follows the db_save of the same inner
\* iteration, and no db_save of a batch comes before set_checkpoint, set_char
\* and set_lora have each been called in that batch
C30_CommitBeforeSend ==
    [][/\ last_call'.op = "Queue_send" => run.saved = run.idx
       /\ (last_call'.op = "db_save" /\ run.pc # "off")
             => \A o \in {"set_checkpoint", "set_char", "set_lora"} : run.n[o] >= 1]_vars

\* a submission of the second iteration of a batch, after the commit of that
\* iteration
C30_Witness ==
    /\ last_call.op = "Queue_send"
    /\ run.n["Queue_send"] = 2
    /\ run.n["db_save"] = 2
    /\ run.saved = 1


\* C28: once the configuration re-read in an inner iteration has a level's
\* maximum below the index the batch is at, the batch has no further db_save
\* and no further Queue_send
C28_ShrinkAborts ==
    [][(run.pc # "off" /\ run.shrunk) => last_call'.op \notin {"db_save", "Queue_send"}]_vars


\* C26: with the test flag set at every read of the configuration, the driver
\* eventually returns from run, whatever the loop counts
C26_TestTerminates ==
    [](Get(main_config, "test", FALSE)) => <>(run.pc = "done")


\* C27: on every way out of run (the test flag, an interrupt, an error) the
\* watcher has been stopped when the driver exits, and from then on no
\* callback is delivered
C27_WatcherStopped ==
    [][/\ run'.pc = "done" => ~watch'.on
       /\ run.pc = "done" => last_call'.op # "watch_dispatch"]_vars

\* the driver has returned after an interrupt while a callback that was
\* delivered before the stop is still running
C27_Witness ==
    /\ run.pc = "done"
    /\ run.exit = "interrupt"
    /\ watch.pc = "store"


(***************************************************************************)
(* The watcher beside the driver.                                          *)
(***************************************************************************)
WatchOps == {"watch_dispatch", "watch_entry", "watch_store"}

\* C24: a selection call made while the reload callback runs reads either the
\* metadata as it was before the callback or as it is after it
C24_AtomicSnapshot ==
    (last_call.op \in {SetOp(c) : c \in Categories} /\ watch.pc # "idle") => data \in {watch.pre, watch.post}

C31_SaveFailureNotFatal ==
    [][/\ (run.pc = "db_save" /\ last_call'.op = "db_save"
              /\ last_call'.outcome \in {"error", "partial"})
          => /\ UNCHANGED <<selected_Checkpoint, selected_char, selected_loras>>
             /\ run'.pc = "Queue_send"
       /\ (last_call.op = "db_save" /\ last_call'.op = "Queue_send")
          => run'.pc \in {"get_main_config", "stop_file_watcher"}]_vars

\* the store could not be opened at the commit of a selected checkpoint, and
\* the submission is next
C31_Witness ==
    /\ last_call.op = "db_save"
    /\ last_call.outcome = "error"
    /\ run.pc = "Queue_send"
    /\ Keys(selected_Checkpoint) = {"a"}


\* the driver's next call after a selection call of category c, with every
\* index of the batch within the maxima read so far
NextCalls(c) ==
    CASE c = "checkpoint" -> {"get_main_config"}
      [] c = "char" -> {"set_lora", "db_save"}
      [] c = "lora" -> {"db_save"}

\* C32: a selection call of the driver that fails leaves the Selection Results
\* of the other two categories as they are and does not end the iteration:
\* the driver makes the call that follows it
C32_FailureIsolated ==
    [][\A c \in Categories :
          (run.pc = SetOp(c) /\ last_call'.op = SetOp(c) /\ last_call'.outcome = "error")
             => /\ c # "checkpoint" => UNCHANGED selected_Checkpoint
                /\ c # "char" => UNCHANGED selected_char
                /\ c # "lora" => UNCHANGED selected_loras
                /\ run'.exit # "error"
                /\ ~run.shrunk => run'.pc \in NextCalls(c)]_vars

\* set_char has failed on a selected checkpoint, and set_lora is next
C32_Witness ==
    /\ last_call.op = "set_char"
    /\ last_call.outcome = "error"
    /\ Keys(selected_Checkpoint) = {"a"}
    /\ run.pc = "set_lora"


(***************************************************************************)
(* SpecRand: random_int_or_value on its own, called once on an integer or  *)
(* on a list of integers or of halves.                                     *)
(***************************************************************************)
\* the call: its result in k, or the error it raises
random_int_or_value_call ==
    /\ last_call.op = "init"
    /\ LET rs == random_int_or_value(main_config["value"])
           c0 == Call("random_int_or_value", "", "none")
       IN IF rs = {} THEN last_call' = [c0 EXCEPT !.outcome = "error"]
          ELSE \E r \in rs : last_call' = [c0 EXCEPT !.outcome = "stored", !.k = r]
    /\ UNCHANGED <<sel_vars, data, pop_vars, run, watch>>

InitRand ==
    /\ \E value \in {IntVal(i) : i \in (-MaxHalf)..MaxHalf}
                    \cup UNION {{SeqVal(s), HalfVal(s)} :
                                s \in UNION {[1..n -> (-MaxHalf)..MaxHalf] : n \in 0..MaxSeq}} :
          InitEngine([x \in {"value"} |-> value], DiskNoXL)
    /\ log_on = FALSE
    /\ PopIdle
    /\ DriverOff

SpecRand == InitRand /\ [][random_int_or_value_call]_vars

C34_DrawsEqualCount ==
    (last_call.op = "set_lora" /\ last_call.kind \in {"weight", "random", "db"}
        /\ last_call.outcome = "stored")
        => /\ last_call.draws = last_call.k
           /\ Cardinality(Keys(selected_loras)) <= last_call.k


(***************************************************************************)
(* SpecBatch: the driver alone, batch after batch, on a config.yml that is *)
(* not edited: two types, of which XL has no folder under dataPath, the    *)
(* checkpoint drawn at random, and loop settings given as an integer, a    *)
(* range of integers or the range [1, 1.5].                                *)
(***************************************************************************)
InitBatch ==
    /\ \E ck \in {IntVal(1), IntVal(2), SeqVal(<<1, 2>>), HalfVal(<<2, 3>>)} :
       \E ch \in {IntVal(1), HalfVal(<<2, 3>>)} :
       \E q \in {IntVal(1), IntVal(2)} :
          InitEngine(With(With(With(With(BaseConfig, "GetCheckpointKind", Kinds({"random"})),
                                    "CheckpointLoop", ck), "CharLoop", ch), "QueueLoop", q),
                     DiskNoXL)
    /\ log_on = FALSE
    /\ PopIdle
    /\ DriverStarted

NextBatch ==
    \/ get_main_config({main_config})
    \/ select_type
    \/ run_loop_counts
    \/ set_checkpoint
    \/ set_char
    \/ set_lora
    \/ db_save
    \/ Queue_send

SpecBatch == InitBatch /\ [][NextBatch]_vars

\* C35: at every db_save and Queue_send of the driver, the identifiers of the
\* three Selection Results are in the catalog of the selected type
C35_TypeConsistentCommit ==
    (run.pc # "off" /\ last_call.op \in {"db_save", "Queue_send"})
        => \A c \in Categories :
              Keys(SelectionOf(c)) \subseteq DOMAIN CatalogOf(c, Lower(selected_type))


\* C36: on a configuration that does not change, no batch is aborted, the
\* commits of a batch come in the order of the index, and a batch that has
\* ended has committed and submitted each of its checkpoint_loop * char_loop
\* * queue_loop iterations once
C36_EveryIterationRuns ==
    LET total_iters == run.checkpoint_loop * run.char_loop * run.queue_loop
    IN /\ run.ended # "aborted"
       /\ (last_call.op = "db_save" /\ run.pc = "Queue_send")
             => run.saved = run.n["db_save"] - 1
       /\ run.ended = "complete"
             => run.n["db_save"] = total_iters /\ run.n["Queue_send"] = total_iters


(***************************************************************************)
(* The bucket of a reloaded file.                                          *)
(***************************************************************************)
\* C37: after the callback for a changed checkpoint metadata file that loads,
\* the file's bucket holds the file's entries that are in the catalog and no
\* other; with no such entry the store has no bucket of the file
C37_BucketReplaced ==
    (last_call.op = "on_data_files_changed" /\ last_call.file[2].ok) =>
        LET parts == last_call.file[1]
            type_key == Lower(parts[1])
            buckets == Get(Get(data, type_key, EmptyDict), parts[2], EmptyDict)
            entries == Filtered(last_call.file[2].yml,
                                DOMAIN CatalogOf("checkpoint", type_key))
        IN IF DOMAIN entries = {} THEN parts[3] \notin DOMAIN buckets
           ELSE parts[3] \in DOMAIN buckets /\ buckets[parts[3]] = entries


(***************************************************************************)
(* The db strategy without the usage store.                                *)
(***************************************************************************)
\* the last call was the db strategy on candidates, and count.db did not open
DbUnavailable == DbDispatched /\ ~last_call.db_ok

\* what the db strategy leaves when every count is 0: the weights of a count
\* of 0, and a stored result drawn from the candidates
AsIfUncounted ==
    /\ \A id \in Range(last_call.cands) :
          /\ last_call.counts[id] = 0
          /\ last_call.weights[id] =
                DbWeight(last_call.base, last_call.min_w, last_call.max_w, 0)
    /\ last_call.outcome = "stored"
    /\ last_call.picks \subseteq Range(last_call.cands)
    /\ Keys(SelectionOf(OpCategory(last_call.op))) = last_call.picks

\* C38, as stated: when count.db cannot be opened, the db strategy of every
\* category takes every count as 0, stores a pick from its non-empty
\* candidate set and leaves the usage store unchanged
C38_UnavailableAsZero ==
    [][DbUnavailable' => (AsIfUncounted' /\ last_call'.picks # {} /\ UNCHANGED db)]_vars

\* C38, amended: the same, the stored result being non-empty when the pick
\* count is at least 1 (always for checkpoint and character, the resolved
\* LoraDbCnt for etc-lora)
C38_UnavailableAsZeroWhenCounted ==
    [][DbUnavailable' => /\ AsIfUncounted'
                         /\ last_call'.k >= 1 => last_call'.picks # {}
                         /\ UNCHANGED db]_vars

\* count.db did not open for a db draw among candidates of which one has a
\* committed count, and a pick is stored
C38_Witness ==
    /\ DbUnavailable
    /\ \E id \in Range(last_call.cands) :
          Get(db[DbReadTable(OpCategory(last_call.op))], id, 0) >= 1
    /\ last_call.picks # {}

====
